---- MODULE Spec2Model ----
(***************************************************************************)
(* Model of the Sentra code-inspection heuristics and HTTP handlers.       *)
(*                                                                         *)
(* A JavaScript string is modelled as a sequence of one-character strings, *)
(* so that split, toLowerCase, includes and the regular expressions of the *)
(* analyzers are computed character by character, as the code does.        *)
(***************************************************************************)
EXTENDS Integers, Sequences, FiniteSets, TLC

VARIABLES
    code,       \* the source text submitted to an analyzer
    language,   \* the language parameter
    framework,  \* the optional framework parameter ("" when absent)
    op,         \* the analyzer that produced result ("none" before any call)
    result,     \* what the analyzer returned
    findings,   \* a list of vulnerabilities or bottlenecks handed to a scoring helper
    files,      \* CodeStore.files: a map from key to CodeFile
    sessions,   \* CodeStore.sessions: a map from key to AnalysisSession
    first,      \* the first analyzer call made on the store, with what it returned
    request,    \* the HTTP request being handled (endpoint and body)
    pc,         \* where its handler stands: idle, an await, or done
    timer,      \* the chat handler's setTimeout: unset, armed, fired or cleared
    remote,     \* the outgoing fetch to the agent or the tool server
    response    \* the response of the handler

callVars == <<code, language, framework, op, result, findings>>
serverVars == <<files, sessions, first, request, pc, timer, remote, response>>
vars == <<callVars, serverVars>>

(***************************************************************************)
(* Strings                                                                 *)
(***************************************************************************)
UpperChars == <<"A", "B", "C", "D", "E", "F", "G", "H", "I", "J", "K", "L", "M", "N", "O", "P", "Q", "R", "S", "T", "U", "V", "W", "X", "Y", "Z">>
LowerChars == <<"a", "b", "c", "d", "e", "f", "g", "h", "i", "j", "k", "l", "m", "n", "o", "p", "q", "r", "s", "t", "u", "v", "w", "x", "y", "z">>
DigitChars == {"0", "1", "2", "3", "4", "5", "6", "7", "8", "9"}

\* the characters other than letters and digits that occur in the inputs
OtherChars ==
    {"\n", " ", "+", "=", ".", ":", "/", "*", "#", "(", ")", "{", "}", "&", "|", "?",
     "_", "'", "\"", ";", ",", "!", "<", ">", "-"}

Chars == {UpperChars[i] : i \in DOMAIN UpperChars} \cup {LowerChars[i] : i \in DOMAIN LowerChars}
            \cup DigitChars \cup OtherChars

\* String.prototype.toLowerCase, one character
LowerChar ==
    [c \in Chars |->
        IF \E i \in DOMAIN UpperChars : UpperChars[i] = c
        THEN LowerChars[CHOOSE i \in DOMAIN UpperChars : UpperChars[i] = c]
        ELSE c]

\* String.prototype.toLowerCase
ToLowerCase(s) == [i \in 1..Len(s) |-> LowerChar[s[i]]]

\* s.startsWith(p, i - 1): p occurs in s at (1-based) position i
OccursAt(s, p, i) ==
    /\ i >= 1
    /\ i + Len(p) - 1 <= Len(s)
    /\ \A j \in 1..Len(p) : s[i + j - 1] = p[j]

\* String.prototype.includes
Includes(s, p) == \E i \in 1..(Len(s) - Len(p) + 1) : OccursAt(s, p, i)

\* String.prototype.split with a one-character separator
RECURSIVE Split(_, _)
Split(s, sep) ==
    IF \A i \in 1..Len(s) : s[i] # sep
    THEN <<s>>
    ELSE LET k == CHOOSE i \in 1..Len(s) : s[i] = sep /\ \A j \in 1..(i - 1) : s[j] # sep
         IN  <<SubSeq(s, 1, k - 1)>> \o Split(SubSeq(s, k + 1, Len(s)), sep)

\* the concatenation of a sequence of strings
RECURSIVE Concat(_)
Concat(ss) == IF ss = <<>> THEN <<>> ELSE Head(ss) \o Concat(Tail(ss))

\* all sequences over S of length at most n
SeqsUpTo(S, n) == UNION {[1..k -> S] : k \in 0..n}

NL == "\n"

(***************************************************************************)
(* Security scanning                                                       *)
(***************************************************************************)
Vuln(id, severity, line, cwe, owasp) ==
    [id |-> id, severity |-> severity, line |-> line, cwe |-> cwe, owasp |-> owasp]

If(cond, finding) == IF cond THEN <<finding>> ELSE <<>>

\* the three rules shared by CodeStore.detectVulnerabilities and scanForVulnerabilities
SqlInjectionRule(lowerLine) ==
    /\ Includes(lowerLine, <<"q", "u", "e", "r", "y">>)
    /\ Includes(lowerLine, <<"+">>)
    /\ ~Includes(lowerLine, <<"p", "r", "e", "p", "a", "r", "e", "d">>)

XssRule(lowerLine) ==
    \/ Includes(lowerLine, <<"i", "n", "n", "e", "r", "h", "t", "m", "l">>)
    \/ Includes(lowerLine, <<"o", "u", "t", "e", "r", "h", "t", "m", "l">>)

HardcodedSecretRule(lowerLine) ==
    /\ Includes(lowerLine, <<"p", "a", "s", "s", "w", "o", "r", "d">>)
    /\ Includes(lowerLine, <<"=">>)
    /\ ~Includes(lowerLine, <<"p", "r", "o", "c", "e", "s", "s", ".", "e", "n", "v">>)

\* mutant: the store tests the XSS rule before the SQL injection rule
StoreLineVulns_XssFirst(line, lineNumber) ==
    LET lowerLine == ToLowerCase(line) IN
      If(XssRule(lowerLine),
         Vuln("XSS", "high", lineNumber, "CWE-79", "A03:2021"))
   \o If(SqlInjectionRule(lowerLine),
         Vuln("SQL_INJECTION", "high", lineNumber, "CWE-89", "A03:2021"))
   \o If(HardcodedSecretRule(lowerLine),
         Vuln("HARDCODED_SECRET", "critical", lineNumber, "CWE-798", "A07:2021"))

\* the body of the forEach callback of CodeStore.detectVulnerabilities
StoreLineVulns(line, lineNumber) ==
    LET lowerLine == ToLowerCase(line) IN
      If(SqlInjectionRule(lowerLine),
         Vuln("SQL_INJECTION", "high", lineNumber, "CWE-89", "A03:2021"))
   \o If(XssRule(lowerLine),
         Vuln("XSS", "high", lineNumber, "CWE-79", "A03:2021"))
   \o If(HardcodedSecretRule(lowerLine),
         Vuln("HARDCODED_SECRET", "critical", lineNumber, "CWE-798", "A07:2021"))

\* mutant: the finding carries the forEach index instead of index + 1
detectVulnerabilities_ZeroBased(c, lang) ==
    LET lines == Split(c, NL)
        acc[i \in 0..Len(lines)] ==
            IF i = 0 THEN <<>> ELSE acc[i - 1] \o StoreLineVulns(lines[i], i - 1)
    IN  acc[Len(lines)]

\* CodeStore.detectVulnerabilities
detectVulnerabilities(c, lang) ==
    LET lines == Split(c, NL)
        acc[i \in 0..Len(lines)] ==
            IF i = 0 THEN <<>> ELSE acc[i - 1] \o StoreLineVulns(lines[i], i)
    IN  acc[Len(lines)]

\* the body of the forEach callback of scanForVulnerabilities (security scanner tool)
ToolLineVulns(line, lineNumber, lang) ==
    LET lowerLine == ToLowerCase(line) IN
      If(SqlInjectionRule(lowerLine),
         Vuln("SQL_INJECTION", "high", lineNumber, "CWE-89", "A03:2021"))
   \o If(XssRule(lowerLine),
         Vuln("XSS", "high", lineNumber, "CWE-79", "A03:2021"))
   \o If(HardcodedSecretRule(lowerLine),
         Vuln("HARDCODED_SECRET", "critical", lineNumber, "CWE-798", "A07:2021"))
   \o If(Includes(lowerLine, <<"m", "a", "t", "h", ".", "r", "a", "n", "d", "o", "m">>)
           /\ lang = "javascript",
         Vuln("WEAK_RANDOM", "medium", lineNumber, "CWE-330", "A02:2021"))
   \o If(Includes(lowerLine, <<"h", "t", "t", "p", ":", "/", "/">>)
           /\ ~Includes(lowerLine, <<"l", "o", "c", "a", "l", "h", "o", "s", "t">>),
         Vuln("INSECURE_PROTOCOL", "medium", lineNumber, "CWE-319", "A02:2021"))
   \o If(Includes(lowerLine, <<"r", "e", "q", ".">>)
           /\ ~Includes(lowerLine, <<"v", "a", "l", "i", "d", "a", "t", "e">>)
           /\ ~Includes(lowerLine, <<"s", "a", "n", "i", "t", "i", "z", "e">>),
         Vuln("INPUT_VALIDATION", "medium", lineNumber, "CWE-20", "A03:2021"))
   \o If(Includes(lowerLine, <<"a", "u", "t", "h">>)
           /\ Includes(lowerLine, <<"=", "=">>)
           /\ ~Includes(lowerLine, <<"b", "c", "r", "y", "p", "t">>),
         Vuln("WEAK_AUTH", "high", lineNumber, "CWE-287", "A07:2021"))

\* scanForVulnerabilities (security scanner tool)
scanForVulnerabilities(c, lang, fw) ==
    LET lines == Split(c, NL)
        acc[i \in 0..Len(lines)] ==
            IF i = 0 THEN <<>> ELSE acc[i - 1] \o ToolLineVulns(lines[i], i, lang)
    IN  acc[Len(lines)]

Max(a, b) == IF a >= b THEN a ELSE b
Min(a, b) == IF a <= b THEN a ELSE b

\* the switch of calculateSecurityScore: the deduction for one finding
SecurityPenalty(severity) ==
    CASE severity = "critical" -> 25
      [] severity = "high" -> 15
      [] severity = "medium" -> 8
      [] severity = "low" -> 3
      [] OTHER -> 0

\* mutant: the final Math.max(0, score) is dropped
StoreSecurityScore_NoFloor(vulnerabilities) ==
    IF Len(vulnerabilities) = 0 THEN 100
    ELSE LET score[i \in 0..Len(vulnerabilities)] ==
                 IF i = 0 THEN 100
                 ELSE score[i - 1] - SecurityPenalty(vulnerabilities[i].severity)
         IN  score[Len(vulnerabilities)]

\* CodeStore.calculateSecurityScore
StoreSecurityScore(vulnerabilities) ==
    IF Len(vulnerabilities) = 0 THEN 100
    ELSE LET score[i \in 0..Len(vulnerabilities)] ==
                 IF i = 0 THEN 100
                 ELSE score[i - 1] - SecurityPenalty(vulnerabilities[i].severity)
         IN  Max(0, score[Len(vulnerabilities)])

\* calculateSecurityScore of the security scanner tool
ToolSecurityScore(vulnerabilities) ==
    IF Len(vulnerabilities) = 0 THEN 100
    ELSE LET score[i \in 0..Len(vulnerabilities)] ==
                 IF i = 0 THEN 100
                 ELSE score[i - 1] - SecurityPenalty(vulnerabilities[i].severity)
         IN  Max(0, score[Len(vulnerabilities)])

\* list.some(x => x.severity === 'critical')
AnyCritical(list) == \E i \in 1..Len(list) : list[i].severity = "critical"
HasId(id, vulnerabilities) == \E i \in 1..Len(vulnerabilities) : vulnerabilities[i].id = id

RecCritical == "Address critical security vulnerabilities immediately"
RecSecretStore == "Implement proper secret management"
RecSecretTool == "Implement proper secret management (AWS Secrets Manager, Azure Key Vault)"
RecSql == "Use parameterized queries and input validation"
RecCsp == "Implement Content Security Policy (CSP) and input sanitization"
RecHelmet == "Use helmet.js for security headers"
RecRateLimit == "Implement rate limiting and request validation"
RecEslint == "Use ESLint security plugin for automated security checks"
RecErrors == "Implement proper error handling to avoid information disclosure"
RecAudits == "Regular security audits and dependency updates"
RecOwasp == "Follow OWASP Top 10 guidelines"

Push(cond, items) == IF cond THEN items ELSE <<>>

\* mutant: the secret-management text is issued for any critical finding
StoreSecurityRecommendations_SecretByCritical(vulnerabilities, lang) ==
       Push(AnyCritical(vulnerabilities), <<RecCritical>>)
    \o Push(AnyCritical(vulnerabilities), <<RecSecretStore>>)
    \o Push(HasId("SQL_INJECTION", vulnerabilities), <<RecSql>>)
    \o Push(HasId("XSS", vulnerabilities), <<RecCsp>>)
    \o <<RecAudits>>
    \o <<RecOwasp>>

\* CodeStore.generateSecurityRecommendations
StoreSecurityRecommendations(vulnerabilities, lang) ==
       Push(AnyCritical(vulnerabilities), <<RecCritical>>)
    \o Push(HasId("HARDCODED_SECRET", vulnerabilities), <<RecSecretStore>>)
    \o Push(HasId("SQL_INJECTION", vulnerabilities), <<RecSql>>)
    \o Push(HasId("XSS", vulnerabilities), <<RecCsp>>)
    \o <<RecAudits>>
    \o <<RecOwasp>>

\* generateSecurityRecommendations of the security scanner tool
ToolSecurityRecommendations(vulnerabilities, lang, fw) ==
       Push(AnyCritical(vulnerabilities), <<RecCritical>>)
    \o Push(HasId("HARDCODED_SECRET", vulnerabilities), <<RecSecretTool>>)
    \o Push(HasId("SQL_INJECTION", vulnerabilities), <<RecSql>>)
    \o Push(HasId("XSS", vulnerabilities), <<RecCsp>>)
    \o Push(fw = "express" \/ fw = "node", <<RecHelmet, RecRateLimit>>)
    \o Push(lang = "javascript" \/ lang = "typescript", <<RecEslint, RecErrors>>)
    \o <<RecAudits>>
    \o <<RecOwasp>>

\* the compliance block: every finding carries an owasp and a cwe tag
Compliance(vulnerabilities) ==
    LET n == Len(vulnerabilities)
        withOwasp == {i \in 1..n : vulnerabilities[i].owasp # ""}
        withCwe == {i \in 1..n : vulnerabilities[i].cwe # ""}
    IN  [owasp |-> Max(0, 100 - Cardinality(withOwasp) * 10),
         cwe   |-> Max(0, 100 - Cardinality(withCwe) * 8)]

\* CodeStore.scanSecurity
scanSecurity(c, lang) ==
    LET vulnerabilities == detectVulnerabilities(c, lang) IN
    [securityScore   |-> StoreSecurityScore(vulnerabilities),
     vulnerabilities |-> vulnerabilities,
     recommendations |-> StoreSecurityRecommendations(vulnerabilities, lang),
     compliance      |-> Compliance(vulnerabilities)]

\* securityScannerTool.execute: no step of the try block can throw for a
\* string input, so the catch branch (SCAN_ERROR) is never taken
securityScannerTool(c, lang, fw) ==
    LET vulnerabilities == scanForVulnerabilities(c, lang, fw) IN
    [securityScore   |-> ToolSecurityScore(vulnerabilities),
     vulnerabilities |-> vulnerabilities,
     recommendations |-> ToolSecurityRecommendations(vulnerabilities, lang, fw),
     compliance      |-> Compliance(vulnerabilities)]

(***************************************************************************)
(* Inputs                                                                  *)
(***************************************************************************)
MaxTokens == 3

Languages == {"javascript", "python"}
Frameworks == {"", "express"}
NoResult == [none |-> TRUE]

\* new CodeStore() and a server that has received no request
NoRequest == [endpoint |-> "none"]
NoResponse == [status |-> 0]
NoData == [kind |-> "none"]
NoRemote == [state |-> "none", data |-> NoData]
EmptyMap == [k \in {} |-> NoResult]
ServerInit ==
    /\ files = EmptyMap
    /\ sessions = EmptyMap
    /\ first = NoResult
    /\ request = NoRequest
    /\ pc = "idle"
    /\ timer = "unset"
    /\ remote = NoRemote
    /\ response = NoResponse

\* source fragments that the security rules react to
SecTokens ==
    { <<NL>>,
      <<"Q", "u", "e", "r", "y", "+">>,
      <<"p", "r", "e", "p", "a", "r", "e", "d">>,
      <<"i", "n", "n", "e", "r", "H", "T", "M", "L">>,
      <<"p", "a", "s", "s", "w", "o", "r", "d", "=">>,
      <<"p", "r", "o", "c", "e", "s", "s", ".", "e", "n", "v">>,
      <<"h", "t", "t", "p", ":", "/", "/">>,
      <<"r", "e", "q", ".", "a", "u", "t", "h", "=", "=">>,
      <<"M", "a", "t", "h", ".", "r", "a", "n", "d", "o", "m">> }

CodesOver(tokens) == {Concat(ts) : ts \in SeqsUpTo(tokens, MaxTokens)}

(***************************************************************************)
(* SpecSec: one call of a security analyzer on every bounded source text   *)
(***************************************************************************)
InitSec ==
    /\ ServerInit
    /\ code \in CodesOver(SecTokens)
    /\ language \in Languages
    /\ framework = ""
    /\ op = "none"
    /\ result = NoResult
    /\ findings = <<>>

\* codeStore.scanSecurity(code, language): the store takes no framework
ScanSecurity ==
    /\ op = "none"
    /\ op' = "scanSecurity"
    /\ framework' = ""
    /\ result' = scanSecurity(code, language)
    /\ UNCHANGED <<serverVars, code, language, findings>>

\* securityScannerTool.execute({code, language, framework})
SecurityScannerTool ==
    \E fw \in Frameworks :
        /\ op = "none"
        /\ op' = "securityScannerTool"
        /\ framework' = fw
        /\ result' = securityScannerTool(code, language, fw)
        /\ UNCHANGED <<serverVars, code, language, findings>>

NextSec == ScanSecurity \/ SecurityScannerTool

SpecSec == InitSec /\ [][NextSec]_vars

(***************************************************************************)
(* C9                                                                      *)
(***************************************************************************)
RuleOrder ==
    <<"SQL_INJECTION", "XSS", "HARDCODED_SECRET", "WEAK_RANDOM",
      "INSECURE_PROTOCOL", "INPUT_VALIDATION", "WEAK_AUTH">>

RuleRank(id) == CHOOSE k \in DOMAIN RuleOrder : RuleOrder[k] = id

\* the ids a scanner may report for a line: the store knows the first three rules
RuleIds(scanner) == IF scanner = "scanSecurity" THEN {"SQL_INJECTION", "XSS", "HARDCODED_SECRET"}
                    ELSE {RuleOrder[k] : k \in DOMAIN RuleOrder}

IsSecurityOp == op \in {"scanSecurity", "securityScannerTool"}

PerformancePenalty(severity) ==
    CASE severity = "critical" -> 20
      [] severity = "high" -> 15
      [] severity = "medium" -> 8
      [] severity = "low" -> 3
      [] OTHER -> 0

\* mutant: the store deducts the security weight (25) for a critical bottleneck
StorePerformanceScore_SecurityWeights(bottlenecks) ==
    IF Len(bottlenecks) = 0 THEN 100
    ELSE LET score[i \in 0..Len(bottlenecks)] ==
                 IF i = 0 THEN 100
                 ELSE score[i - 1] - SecurityPenalty(bottlenecks[i].severity)
         IN  Max(0, score[Len(bottlenecks)])

\* CodeStore.calculatePerformanceScore
StorePerformanceScore(bottlenecks) ==
    IF Len(bottlenecks) = 0 THEN 100
    ELSE LET score[i \in 0..Len(bottlenecks)] ==
                 IF i = 0 THEN 100
                 ELSE score[i - 1] - PerformancePenalty(bottlenecks[i].severity)
         IN  Max(0, score[Len(bottlenecks)])

\* calculatePerformanceScore of the performance optimizer tool
ToolPerformanceScore(bottlenecks) ==
    IF Len(bottlenecks) = 0 THEN 100
    ELSE LET score[i \in 0..Len(bottlenecks)] ==
                 IF i = 0 THEN 100
                 ELSE score[i - 1] - PerformancePenalty(bottlenecks[i].severity)
         IN  Max(0, score[Len(bottlenecks)])

(***************************************************************************)
(* SpecScore: the four scoring helpers applied to every bounded list of    *)
(* findings; only the severity of a finding is read by them                *)
(***************************************************************************)
MaxFindings == 5

Severities == {"critical", "high", "medium", "low"}

NotComputed == -1

NoScores ==
    [storeSecurity |-> NotComputed, toolSecurity |-> NotComputed,
     storePerformance |-> NotComputed, toolPerformance |-> NotComputed]

InitScore ==
    /\ ServerInit
    /\ code = <<>>
    /\ language = ""
    /\ framework = ""
    /\ op = "none"
    /\ result = NoScores
    /\ findings = <<>>

\* one more finding is pushed onto the list; scores computed before are stale
PushFinding ==
    \E sev \in Severities :
        /\ Len(findings) < MaxFindings
        /\ findings' = Append(findings, [severity |-> sev])
        /\ op' = "push"
        /\ result' = NoScores
        /\ UNCHANGED <<serverVars, code, language, framework>>

StoreCalculateSecurityScore ==
    /\ op' = "calculateSecurityScore"
    /\ result' = [result EXCEPT !.storeSecurity = StoreSecurityScore(findings)]
    /\ UNCHANGED <<serverVars, code, language, framework, findings>>

ToolCalculateSecurityScore ==
    /\ op' = "calculateSecurityScore"
    /\ result' = [result EXCEPT !.toolSecurity = ToolSecurityScore(findings)]
    /\ UNCHANGED <<serverVars, code, language, framework, findings>>

StoreCalculatePerformanceScore ==
    /\ op' = "calculatePerformanceScore"
    /\ result' = [result EXCEPT !.storePerformance = StorePerformanceScore(findings)]
    /\ UNCHANGED <<serverVars, code, language, framework, findings>>

ToolCalculatePerformanceScore ==
    /\ op' = "calculatePerformanceScore"
    /\ result' = [result EXCEPT !.toolPerformance = ToolPerformanceScore(findings)]
    /\ UNCHANGED <<serverVars, code, language, framework, findings>>

NextScore ==
    \/ PushFinding
    \/ StoreCalculateSecurityScore
    \/ ToolCalculateSecurityScore
    \/ StoreCalculatePerformanceScore
    \/ ToolCalculatePerformanceScore

SpecScore == InitScore /\ [][NextScore]_vars

(***************************************************************************)
(* C4, C5                                                                  *)
(***************************************************************************)
CountSeverity(list, sev) == Cardinality({i \in 1..Len(list) : list[i].severity = sev})

SecurityFormula(list) ==
    Max(0, 100 - 25 * CountSeverity(list, "critical") - 15 * CountSeverity(list, "high")
             - 8 * CountSeverity(list, "medium") - 3 * CountSeverity(list, "low"))

PerformanceFormula(list) ==
    Max(0, 100 - 20 * CountSeverity(list, "critical") - 15 * CountSeverity(list, "high")
             - 8 * CountSeverity(list, "medium") - 3 * CountSeverity(list, "low"))

\* C4 (calculateSecurityScore, store and tool): the score of a list is
\* max(0, 100 - 25*#critical - 15*#high - 8*#medium - 3*#low); it lies in 0..100,
\* is 100 exactly for the empty list, and one more finding never raises it.
C4_SecurityScore ==
    /\ result.storeSecurity # NotComputed =>
          /\ result.storeSecurity = SecurityFormula(findings)
          /\ result.storeSecurity \in 0..100
          /\ result.storeSecurity = 100 <=> findings = <<>>
          /\ \A sev \in Severities :
                StoreSecurityScore(Append(findings, [severity |-> sev])) <= result.storeSecurity
    /\ result.toolSecurity # NotComputed =>
          /\ result.toolSecurity = SecurityFormula(findings)
          /\ result.toolSecurity \in 0..100
          /\ result.toolSecurity = 100 <=> findings = <<>>
          /\ \A sev \in Severities :
                ToolSecurityScore(Append(findings, [severity |-> sev])) <= result.toolSecurity

\* both implementations scored five critical findings: the floor of 0 applies
C4_Witness ==
    /\ Len(findings) = 5
    /\ \A i \in 1..Len(findings) : findings[i].severity = "critical"
    /\ result.storeSecurity = 0
    /\ result.toolSecurity = 0

MaxVulns == 2

VulnIds == {"SQL_INJECTION", "XSS", "HARDCODED_SECRET", "WEAK_AUTH"}

InitRecs ==
    /\ ServerInit
    /\ code = <<>>
    /\ language \in Languages
    /\ framework = ""
    /\ op = "none"
    /\ result = NoResult
    /\ findings = <<>>

PushVulnerability ==
    \E id \in VulnIds, sev \in Severities :
        /\ Len(findings) < MaxVulns
        /\ findings' = Append(findings, [id |-> id, severity |-> sev])
        /\ op' = "push"
        /\ result' = NoResult
        /\ UNCHANGED <<serverVars, code, language, framework>>

StoreGenerateSecurityRecommendations ==
    /\ op' = "storeRecommendations"
    /\ framework' = ""
    /\ result' = [recommendations |-> StoreSecurityRecommendations(findings, language)]
    /\ UNCHANGED <<serverVars, code, language, findings>>

ToolGenerateSecurityRecommendations ==
    \E fw \in Frameworks :
        /\ op' = "toolRecommendations"
        /\ framework' = fw
        /\ result' = [recommendations |-> ToolSecurityRecommendations(findings, language, fw)]
        /\ UNCHANGED <<serverVars, code, language, findings>>

NextRecs ==
    \/ PushVulnerability
    \/ StoreGenerateSecurityRecommendations
    \/ ToolGenerateSecurityRecommendations

SpecRecs == InitRecs /\ [][NextRecs]_vars

(***************************************************************************)
(* C8                                                                      *)
(***************************************************************************)
IsRecsOp == op \in {"storeRecommendations", "toolRecommendations"}

Recommends(text) ==
    \E k \in 1..Len(result.recommendations) : result.recommendations[k] = text

FoundId(id) == \E i \in 1..Len(findings) : findings[i].id = id

\* C8 (generateSecurityRecommendations, store and tool): the secret-management
\* text is present iff some finding has id HARDCODED_SECRET, the
\* parameterized-queries text iff SQL_INJECTION, the CSP text iff XSS, the
\* 'critical' text iff some finding has severity critical; the two general
\* texts are always the last two entries.
C8_Recommendations ==
    IsRecsOp =>
        LET recs == result.recommendations IN
        /\ (Recommends(RecSecretStore) \/ Recommends(RecSecretTool)) <=> FoundId("HARDCODED_SECRET")
        /\ Recommends(RecSql) <=> FoundId("SQL_INJECTION")
        /\ Recommends(RecCsp) <=> FoundId("XSS")
        /\ Recommends(RecCritical) <=>
              \E i \in 1..Len(findings) : findings[i].severity = "critical"
        /\ Len(recs) >= 2
        /\ recs[Len(recs) - 1] = RecAudits
        /\ recs[Len(recs)] = RecOwasp

\* a critical finding that is not a hardcoded secret: the 'critical' text is
\* issued without the secret-management text
C8_Witness ==
    /\ IsRecsOp
    /\ Recommends(RecCritical)
    /\ ~FoundId("HARDCODED_SECRET")
    /\ Len(result.recommendations) = 3

\* nothing matched: only the two general texts
C8_WitnessEmpty ==
    /\ IsRecsOp
    /\ findings = <<>>
    /\ result.recommendations = <<RecAudits, RecOwasp>>

(***************************************************************************)
(* Performance analysis                                                    *)
(***************************************************************************)
AddEventListener ==
    <<"a", "d", "d", "E", "v", "e", "n", "t", "L", "i", "s", "t", "e", "n", "e", "r">>
RemoveEventListener ==
    <<"r", "e", "m", "o", "v", "e", "E", "v", "e", "n", "t", "L", "i", "s", "t", "e", "n", "e", "r">>

Bottleneck(type, severity, description, line) ==
    [type |-> type, severity |-> severity, description |-> description, line |-> line]

\* (lowerLine.includes('for') && lowerLine.includes('for')) ||
\* (lowerLine.includes('while') && lowerLine.includes('while'))
NestedLoopsRule(lowerLine) ==
    \/ Includes(lowerLine, <<"f", "o", "r">>) /\ Includes(lowerLine, <<"f", "o", "r">>)
    \/ Includes(lowerLine, <<"w", "h", "i", "l", "e">>) /\ Includes(lowerLine, <<"w", "h", "i", "l", "e">>)

\* lowerLine.includes('addEventListener') && !lowerLine.includes('removeEventListener'):
\* the needles are searched, as written, in the lower-cased line
MemoryLeakRule(lowerLine) ==
    /\ Includes(lowerLine, AddEventListener)
    /\ ~Includes(lowerLine, RemoveEventListener)

\* the body of the forEach callback of CodeStore.detectPerformanceBottlenecks
StoreLineBottlenecks(line, lineNumber) ==
    LET lowerLine == ToLowerCase(line) IN
      If(NestedLoopsRule(lowerLine),
         Bottleneck("cpu", "high", "Nested loops detected", lineNumber))
   \o If(MemoryLeakRule(lowerLine),
         Bottleneck("memory", "high", "Potential memory leak", lineNumber))

\* CodeStore.detectPerformanceBottlenecks
detectPerformanceBottlenecks(c, lang) ==
    LET lines == Split(c, NL)
        acc[i \in 0..Len(lines)] ==
            IF i = 0 THEN <<>> ELSE acc[i - 1] \o StoreLineBottlenecks(lines[i], i)
    IN  acc[Len(lines)]

\* the body of the forEach callback of analyzePerformanceBottlenecks (tool)
ToolLineBottlenecks(line, lineNumber) ==
    LET lowerLine == ToLowerCase(line) IN
      If(NestedLoopsRule(lowerLine),
         Bottleneck("cpu", "high", "Nested loops detected", lineNumber))
   \o If(Includes(lowerLine, <<".", "f", "i", "l", "t", "e", "r">>)
           /\ Includes(lowerLine, <<".", "m", "a", "p">>)
           /\ Includes(lowerLine, <<".", "r", "e", "d", "u", "c", "e">>),
         Bottleneck("cpu", "medium", "Multiple array iterations in sequence", lineNumber))
   \o If(MemoryLeakRule(lowerLine),
         Bottleneck("memory", "high", "Potential memory leak", lineNumber))
   \o If(Includes(lowerLine, <<"n", "e", "w", " ", "A", "r", "r", "a", "y", "(">>)
           /\ Includes(lowerLine, <<"1", "0", "0", "0">>),
         Bottleneck("memory", "medium", "Large array allocation", lineNumber))
   \o If(Includes(lowerLine, <<"f", "s", ".", "r", "e", "a", "d", "F", "i", "l", "e", "S", "y", "n", "c">>)
           \/ Includes(lowerLine, <<"r", "e", "q", "u", "i", "r", "e", "(">>),
         Bottleneck("cpu", "medium", "Synchronous file operations", lineNumber))
   \o If(Includes(lowerLine, <<"d", "o", "c", "u", "m", "e", "n", "t", ".", "g", "e", "t", "E", "l", "e", "m", "e", "n", "t", "B", "y", "I", "d">>)
           /\ Includes(lowerLine, <<"f", "o", "r">>),
         Bottleneck("rendering", "medium", "Repeated DOM queries in loop", lineNumber))
   \o If(Includes(lowerLine, <<"a", "w", "a", "i", "t">>)
           /\ Includes(lowerLine, <<"f", "o", "r">>)
           /\ Includes(lowerLine, <<"f", "i", "n", "d">>),
         Bottleneck("database", "high", "Potential N+1 query problem", lineNumber))
   \o If(Includes(lowerLine, <<"i", "m", "g">>)
           /\ ~Includes(lowerLine, <<"l", "o", "a", "d", "i", "n", "g", "=", "\"", "l", "a", "z", "y", "\"">>),
         Bottleneck("network", "low", "Images without lazy loading", lineNumber))
   \o If(Includes(lowerLine, <<"f", "e", "t", "c", "h">>)
           /\ ~Includes(lowerLine, <<"c", "a", "c", "h", "e">>),
         Bottleneck("network", "medium", "API calls without caching", lineNumber))

\* analyzePerformanceBottlenecks (performance optimizer tool)
analyzePerformanceBottlenecks(c, lang, fw) ==
    LET lines == Split(c, NL)
        acc[i \in 0..Len(lines)] ==
            IF i = 0 THEN <<>> ELSE acc[i - 1] \o ToolLineBottlenecks(lines[i], i)
    IN  acc[Len(lines)]

AnyType(list, type) == \E i \in 1..Len(list) : list[i].type = type
AnySeverity(list, sev) == \E i \in 1..Len(list) : list[i].severity = sev

PerfRecCritical == "Address critical performance bottlenecks immediately"
PerfRecCpu == "Optimize algorithms and reduce time complexity"
PerfRecWorkers == "Use Web Workers for CPU-intensive tasks"
PerfRecMemory == "Implement proper memory management and cleanup"
PerfRecProfiling == "Use memory profiling tools to identify leaks"
PerfRecDbQueries == "Optimize database queries and add proper indexing"
PerfRecDbProfiling == "Use database query profiling and monitoring"
PerfRecCaching == "Implement caching and CDN strategies"
PerfRecSplitting == "Use code splitting and lazy loading"
PerfRecReact == "Use React.memo, useMemo, and useCallback for optimization"
PerfRecVirtual == "Implement virtual scrolling for large lists"
PerfRecVue == "Use Vue built-in performance optimizations"
PerfRecKeys == "Implement proper key attributes for lists"
PerfRecLighthouse == "Use performance monitoring tools (Lighthouse, Web Vitals)"
PerfRecBundle == "Implement bundle analysis and tree shaking"
PerfRecBudgets == "Set up performance budgets and monitoring"
PerfRecMonitoring == "Use performance monitoring tools"
PerfRecAudits == "Regular performance audits and optimization"

\* CodeStore.generatePerformanceRecommendations
StorePerformanceRecommendations(bottlenecks, lang) ==
       Push(AnyCritical(bottlenecks), <<PerfRecCritical>>)
    \o Push(AnyType(bottlenecks, "cpu"), <<PerfRecCpu>>)
    \o Push(AnyType(bottlenecks, "memory"), <<PerfRecMemory>>)
    \o <<PerfRecMonitoring, PerfRecAudits>>

\* generatePerformanceRecommendations of the performance optimizer tool
ToolPerformanceRecommendations(bottlenecks, lang, fw) ==
       Push(AnyCritical(bottlenecks), <<PerfRecCritical>>)
    \o Push(AnyType(bottlenecks, "cpu"), <<PerfRecCpu, PerfRecWorkers>>)
    \o Push(AnyType(bottlenecks, "memory"), <<PerfRecMemory, PerfRecProfiling>>)
    \o Push(AnyType(bottlenecks, "database"), <<PerfRecDbQueries, PerfRecDbProfiling>>)
    \o Push(AnyType(bottlenecks, "network"), <<PerfRecCaching, PerfRecSplitting>>)
    \o Push(fw = "react", <<PerfRecReact, PerfRecVirtual>>)
    \o Push(fw = "vue", <<PerfRecVue, PerfRecKeys>>)
    \o Push(lang = "javascript" \/ lang = "typescript", <<PerfRecLighthouse, PerfRecBundle>>)
    \o <<PerfRecBudgets, PerfRecAudits>>

Metrics(loadTime, memoryUsage, cpuIntensity) ==
    [estimatedLoadTime |-> loadTime, memoryUsage |-> memoryUsage, cpuIntensity |-> cpuIntensity]

\* CodeStore.calculatePerformanceMetrics (its lines and functions locals are unused)
StorePerformanceMetrics(c, bottlenecks) ==
    IF AnyCritical(bottlenecks) THEN Metrics("Very Slow", "Very High", "Very High")
    ELSE IF AnySeverity(bottlenecks, "high") THEN Metrics("Slow", "High", "High")
    ELSE Metrics("Fast", "Low", "Low")

\* the code-size threshold of the tool's calculatePerformanceMetrics
LargeCodeLines == 1000

\* calculatePerformanceMetrics of the performance optimizer tool
ToolPerformanceMetrics(c, bottlenecks) ==
    LET lines == Len(Split(c, NL))
        base == IF AnyCritical(bottlenecks) THEN Metrics("Very Slow", "Very High", "Very High")
                ELSE IF AnySeverity(bottlenecks, "high") THEN Metrics("Slow", "High", "High")
                ELSE IF AnySeverity(bottlenecks, "medium") THEN Metrics("Moderate", "Medium", "Medium")
                ELSE Metrics("Fast", "Low", "Low")
    IN  IF lines > LargeCodeLines
        THEN [base EXCEPT
                !.estimatedLoadTime = IF @ = "Fast" THEN "Moderate" ELSE @,
                !.memoryUsage = IF @ = "Low" THEN "Medium" ELSE @]
        ELSE base

\* CodeStore.analyzePerformance
analyzePerformance(c, lang) ==
    LET bottlenecks == detectPerformanceBottlenecks(c, lang) IN
    [performanceScore |-> StorePerformanceScore(bottlenecks),
     bottlenecks      |-> bottlenecks,
     recommendations  |-> StorePerformanceRecommendations(bottlenecks, lang),
     metrics          |-> StorePerformanceMetrics(c, bottlenecks)]

\* performanceOptimizerTool.execute: no step of the try block can throw for a
\* string input, so the catch branch is never taken
performanceOptimizerTool(c, lang, fw) ==
    LET bottlenecks == analyzePerformanceBottlenecks(c, lang, fw) IN
    [performanceScore |-> ToolPerformanceScore(bottlenecks),
     bottlenecks      |-> bottlenecks,
     recommendations  |-> ToolPerformanceRecommendations(bottlenecks, lang, fw),
     metrics          |-> ToolPerformanceMetrics(c, bottlenecks)]

(***************************************************************************)
(* SpecPerf: one call of a performance analyzer on every bounded source    *)
(***************************************************************************)
\* source fragments that the performance rules react to
PerfTokens ==
    { <<NL>>,
      <<"f", "o", "r">>,
      <<"w", "h", "i", "l", "e">>,
      AddEventListener,
      RemoveEventListener,
      <<"f", "e", "t", "c", "h">>,
      <<"i", "m", "g">>,
      <<"r", "e", "q", "u", "i", "r", "e", "(">> }

InitPerf ==
    /\ ServerInit
    /\ code \in CodesOver(PerfTokens)
    /\ language \in Languages
    /\ framework = ""
    /\ op = "none"
    /\ result = NoResult
    /\ findings = <<>>

\* codeStore.analyzePerformance(code, language)
AnalyzePerformance ==
    /\ op = "none"
    /\ op' = "analyzePerformance"
    /\ framework' = ""
    /\ result' = analyzePerformance(code, language)
    /\ UNCHANGED <<serverVars, code, language, findings>>

\* performanceOptimizerTool.execute({code, language, framework})
PerformanceOptimizerTool ==
    \E fw \in Frameworks :
        /\ op = "none"
        /\ op' = "performanceOptimizerTool"
        /\ framework' = fw
        /\ result' = performanceOptimizerTool(code, language, fw)
        /\ UNCHANGED <<serverVars, code, language, findings>>

NextPerf == AnalyzePerformance \/ PerformanceOptimizerTool

SpecPerf == InitPerf /\ [][NextPerf]_vars

(***************************************************************************)
(* C6                                                                      *)
(***************************************************************************)
IsPerfOp == op \in {"analyzePerformance", "performanceOptimizerTool"}

\* C6 (detectPerformanceBottlenecks, analyzePerformanceBottlenecks): every
\* submitted line that contains 'addEventListener' and not 'removeEventListener'
\* yields a memory/high bottleneck with that line's number, so that the score
\* drops by 15 for it and the memory recommendation is added.
C6_ListenerLeakReported ==
    IsPerfOp =>
        LET lines == Split(code, NL) IN
        \A i \in 1..Len(lines) :
            (Includes(lines[i], AddEventListener) /\ ~Includes(lines[i], RemoveEventListener))
            => /\ \E k \in 1..Len(result.bottlenecks) :
                     /\ result.bottlenecks[k].type = "memory"
                     /\ result.bottlenecks[k].severity = "high"
                     /\ result.bottlenecks[k].line = i
               /\ result.performanceScore <= 85
               /\ \E k \in 1..Len(result.recommendations) :
                     result.recommendations[k] = PerfRecMemory

\* what the code does instead: no analyzer ever reports a memory bottleneck
C6_NoMemoryBottleneckEver ==
    IsPerfOp => ~AnyType(result.bottlenecks, "memory")

(***************************************************************************)
(* Regular expressions of the quality analyzers                            *)
(*                                                                         *)
(* A regular expression is modelled by its match function: for every start *)
(* position i of the subject (1..Len+1) the exclusive end of the match     *)
(* that starts at i, or 0 when none does.                                  *)
(***************************************************************************)
WordChars ==
    {UpperChars[i] : i \in DOMAIN UpperChars} \cup {LowerChars[i] : i \in DOMAIN LowerChars}
        \cup DigitChars \cup {"_"}

WhiteSpace == {" ", "\n", "\t"}

IsWordAt(s, i) == i \in 1..Len(s) /\ s[i] \in WordChars

\* \b between the characters i - 1 and i
Boundary(s, i) == IsWordAt(s, i - 1) # IsWordAt(s, i)

\* the end of the longest run of characters of class that starts at i
SkipClass(s, i, class) ==
    CHOOSE j \in i..(Len(s) + 1) :
        /\ j = Len(s) + 1 \/ s[j] \notin class
        /\ \A k \in i..(j - 1) : s[k] \in class

\* String.prototype.match with a global expression: the number of
\* non-overlapping matches found from left to right (an empty match
\* advances the search by one character); null counts as 0
GlobalMatchCount(s, ends) ==
    LET n == Len(s) + 1
        cnt[i \in 1..(n + 1)] ==
            IF i > n THEN 0
            ELSE LET e == ends[i]
                 IN  IF e = 0 THEN cnt[i + 1]
                     ELSE 1 + cnt[IF e = i THEN i + 1 ELSE e]
    IN  cnt[1]

\* an alternation of literals, tried in order
LiteralsRegExp(s, lits) ==
    [i \in 1..(Len(s) + 1) |->
        IF \E k \in DOMAIN lits : OccursAt(s, lits[k], i)
        THEN i + Len(lits[CHOOSE k \in DOMAIN lits :
                            /\ OccursAt(s, lits[k], i)
                            /\ \A h \in 1..(k - 1) : ~OccursAt(s, lits[h], i)])
        ELSE 0]

\* function\s+\w+
FunctionDeclEnd(s, i) ==
    IF ~OccursAt(s, <<"f", "u", "n", "c", "t", "i", "o", "n">>, i) THEN 0
    ELSE LET a == i + 8
             b == SkipClass(s, a, WhiteSpace)
             c == SkipClass(s, b, WordChars)
         IN  IF b > a /\ c > b THEN c ELSE 0

\* const\s+\w+\s*=\s*\(
ConstArrowEnd(s, i) ==
    IF ~OccursAt(s, <<"c", "o", "n", "s", "t">>, i) THEN 0
    ELSE LET a == i + 5
             b == SkipClass(s, a, WhiteSpace)
             c == SkipClass(s, b, WordChars)
             d == SkipClass(s, c, WhiteSpace)
             e == SkipClass(s, d + 1, WhiteSpace)
         IN  IF b > a /\ c > b /\ OccursAt(s, <<"=">>, d) /\ OccursAt(s, <<"(">>, e)
             THEN e + 1 ELSE 0

\* class\s+\w+
ClassDeclEnd(s, i) ==
    IF ~OccursAt(s, <<"c", "l", "a", "s", "s">>, i) THEN 0
    ELSE LET a == i + 5
             b == SkipClass(s, a, WhiteSpace)
             c == SkipClass(s, b, WordChars)
         IN  IF b > a /\ c > b THEN c ELSE 0

\* (code.match(/function\s+\w+|const\s+\w+\s*=\s*\(/g) || []).length
CountFunctions(c) ==
    GlobalMatchCount(c, [i \in 1..(Len(c) + 1) |->
        LET e == FunctionDeclEnd(c, i) IN IF e # 0 THEN e ELSE ConstArrowEnd(c, i)])

\* (code.match(/class\s+\w+/g) || []).length
CountClasses(c) ==
    GlobalMatchCount(c, [i \in 1..(Len(c) + 1) |-> ClassDeclEnd(c, i)])

\* (code.match(/\/\/|\/\*|\*\/|\#/g) || []).length
CountComments(c) ==
    GlobalMatchCount(c, LiteralsRegExp(c, << <<"/", "/">>, <<"/", "*">>, <<"*", "/">>, <<"#">> >>))

\* the source text of a complexity keyword, as the string literal evaluates
KeywordText(keyword) ==
    CASE keyword = "if" -> <<"i", "f">>
      [] keyword = "else" -> <<"e", "l", "s", "e">>
      [] keyword = "while" -> <<"w", "h", "i", "l", "e">>
      [] keyword = "for" -> <<"f", "o", "r">>
      [] keyword = "switch" -> <<"s", "w", "i", "t", "c", "h">>
      [] keyword = "case" -> <<"c", "a", "s", "e">>
      [] keyword = "catch" -> <<"c", "a", "t", "c", "h">>
      [] keyword = "try" -> <<"t", "r", "y">>
      [] keyword = "&&" -> <<"&", "&">>
      [] keyword = "||" -> <<"|", "|">>
      [] keyword = "\\?" -> <<"\\", "?">>
      [] keyword = "?" -> <<"?">>
      [] keyword = ":" -> <<":">>

\* new RegExp(`\\b${keyword}\\b`, 'g'): the pattern \b<keyword>\b.
\*   - a keyword that starts with a quantifier ('?') follows the assertion \b,
\*     which cannot be quantified: the constructor throws a SyntaxError;
\*   - '||' makes the pattern the alternation \b | (empty) | \b, which matches
\*     the empty string at every position;
\*   - '\?' is the escaped literal '?';
\*   - every other keyword is a literal between two word boundaries.
KeywordRegExpThrows(keyword) == Head(KeywordText(keyword)) \in {"?", "*", "+"}

KeywordRegExp(s, keyword) ==
    LET text == KeywordText(keyword)
        lit == IF Head(text) = "\\" THEN Tail(text) ELSE text
    IN  IF \A k \in DOMAIN text : text[k] = "|"
        THEN [i \in 1..(Len(s) + 1) |-> i]
        ELSE [i \in 1..(Len(s) + 1) |->
                IF Boundary(s, i) /\ OccursAt(s, lit, i) /\ Boundary(s, i + Len(lit))
                THEN i + Len(lit) ELSE 0]

\* the loop of calculateCyclomaticComplexity / calculateCognitiveComplexity:
\* start plus the number of matches of every keyword
KeywordMatches(c, keywords, start) ==
    LET acc[k \in 0..Len(keywords)] ==
            IF k = 0 THEN start
            ELSE acc[k - 1] + GlobalMatchCount(c, KeywordRegExp(c, keywords[k]))
    IN  acc[Len(keywords)]

StoreComplexityKeywords ==
    <<"if", "else", "while", "for", "switch", "case", "catch", "&&", "||", "\\?", ":", "try">>
ToolComplexityKeywords ==
    <<"if", "else", "while", "for", "switch", "case", "catch", "&&", "||", "?", ":", "try">>
NestedKeywords == <<"if", "else", "while", "for", "switch", "try", "catch">>

\* CodeStore.calculateCyclomaticComplexity
StoreCyclomaticComplexity(c) == KeywordMatches(c, StoreComplexityKeywords, 1)

\* CodeStore.calculateCognitiveComplexity, calculateCognitiveComplexity (tool)
CognitiveComplexity(c) == KeywordMatches(c, NestedKeywords, 0)

\* calculateCyclomaticComplexity of the code analyzer tool: whether it throws
ToolCyclomaticThrows(c) ==
    \E k \in DOMAIN ToolComplexityKeywords : KeywordRegExpThrows(ToolComplexityKeywords[k])

\* calculateCyclomaticComplexity of the code analyzer tool, when it returns
ToolCyclomaticComplexity(c) == KeywordMatches(c, ToolComplexityKeywords, 1)

(***************************************************************************)
(* Quality analysis                                                        *)
(***************************************************************************)
\* Math.round of the non-negative rational num / den (den > 0): floor(x + 1/2)
Round(num, den) == (2 * num + den) \div (2 * den)

Issue(type, message, line, severity) ==
    [type |-> type, message |-> message, line |-> line, severity |-> severity]

ConsoleLogRule(line) ==
    /\ Includes(line, <<"c", "o", "n", "s", "o", "l", "e", ".", "l", "o", "g">>)
    /\ ~Includes(line, <<"/", "/">>)

VarRule(line, lang) == Includes(line, <<"v", "a", "r", " ">>) /\ lang = "javascript"

LooseEqualityRule(line) == Includes(line, <<"=", "=">>) /\ ~Includes(line, <<"=", "=", "=">>)

\* the body of the forEach callback of CodeStore.detectCodeIssues
StoreLineIssues(line, lineNumber, lang) ==
      If(ConsoleLogRule(line), Issue("warning", "Console.log statement found", lineNumber, "low"))
   \o If(VarRule(line, lang), Issue("warning", "Use of var keyword", lineNumber, "medium"))
   \o If(LooseEqualityRule(line), Issue("warning", "Use of == instead of ===", lineNumber, "medium"))

\* CodeStore.detectCodeIssues
StoreDetectCodeIssues(c, lang) ==
    LET lines == Split(c, NL)
        acc[i \in 0..Len(lines)] ==
            IF i = 0 THEN <<>> ELSE acc[i - 1] \o StoreLineIssues(lines[i], i, lang)
    IN  acc[Len(lines)]

\* line.length > 120
LongLine == 120

\* the body of the forEach callback of detectCodeIssues (code analyzer tool)
ToolLineIssues(line, lineNumber, lang) ==
      If(ConsoleLogRule(line), Issue("warning", "Console.log statement found", lineNumber, "low"))
   \o If(VarRule(line, lang), Issue("warning", "Use of var keyword", lineNumber, "medium"))
   \o If(LooseEqualityRule(line), Issue("warning", "Use of == instead of ===", lineNumber, "medium"))
   \o If(Len(line) > LongLine, Issue("info", "Line too long", lineNumber, "low"))
   \o If(Includes(line, <<"T", "O", "D", "O">>) \/ Includes(line, <<"F", "I", "X", "M", "E">>),
         Issue("info", "TODO or FIXME comment found", lineNumber, "low"))

\* detectCodeIssues (code analyzer tool)
ToolDetectCodeIssues(c, lang) ==
    LET lines == Split(c, NL)
        acc[i \in 0..Len(lines)] ==
            IF i = 0 THEN <<>> ELSE acc[i - 1] \o ToolLineIssues(lines[i], i, lang)
    IN  acc[Len(lines)]

\* generateImprovementSuggestions (the same text in the store and in the tool);
\* the unrounded quality score is the rational scoreNum / scoreDen
generateImprovementSuggestions(c, issues, scoreNum, scoreDen) ==
       Push(scoreNum < 50 * scoreDen, <<"Consider refactoring to improve code quality">>)
    \o Push(AnySeverity(issues, "high") \/ AnySeverity(issues, "critical"),
            <<"Address high-severity issues immediately">>)
    \o Push(10 * CountFunctions(c) > Len(Split(c, NL)),
            <<"Consider breaking down large functions">>)
    \o Push(Includes(c, <<"a", "n", "y">>)
              /\ Includes(c, <<"t", "y", "p", "e", "s", "c", "r", "i", "p", "t">>),
            <<"Avoid using \"any\" type in TypeScript">>)
    \o Push(~Includes(c, <<"t", "e", "s", "t">>) /\ ~Includes(c, <<"s", "p", "e", "c">>),
            <<"Add unit tests for better code coverage">>)

\* twice the maintainability index: Math.max(0, 100 - cyclomatic * 2 - cognitive * 1.5)
Maintainability2(cyclomatic, cognitive) == Max(0, 200 - 4 * cyclomatic - 3 * cognitive)

\* the unclamped quality score of analyzeCode, times 5 * lines:
\*   maintainabilityIndex * 0.4 + (comments / lines * 100) * 0.2
\*     + (functions > 0 ? Math.min(100, 100 - functions / lines * 1000) : 100) * 0.4
QualityNum(lines, functions, comments, maintainability2) ==
    LET fn == IF functions > 0 THEN Min(100 * lines, 100 * lines - 1000 * functions)
              ELSE 100 * lines
    IN  maintainability2 * lines + 100 * comments + 2 * fn

\* mutant: the quality score is not clamped from below
QualityClamp_NoFloor(num, den) == Min(100 * den, num)

\* Math.max(0, Math.min(100, num / den)), times den
QualityClamp(num, den) == Max(0, Min(100 * den, num))

AnalysisResult(qualityScore, cyclomatic, cognitive, maintainability, issues, lines, functions, classes, comments, suggestions) ==
    [qualityScore |-> qualityScore,
     complexity   |-> [cyclomatic |-> cyclomatic, cognitive |-> cognitive,
                       maintainability |-> maintainability],
     issues       |-> issues,
     metrics      |-> [linesOfCode |-> lines, functions |-> functions,
                       classes |-> classes, comments |-> comments],
     suggestions  |-> suggestions]

\* CodeStore.analyzeCode
analyzeCode(c, lang) ==
    LET lines == Len(Split(c, NL))
        functions == CountFunctions(c)
        classes == CountClasses(c)
        comments == CountComments(c)
        cyclomatic == StoreCyclomaticComplexity(c)
        cognitive == CognitiveComplexity(c)
        mi2 == Maintainability2(cyclomatic, cognitive)
        den == 5 * lines
        num == QualityClamp(QualityNum(lines, functions, comments, mi2), den)
        issues == StoreDetectCodeIssues(c, lang)
    IN  AnalysisResult(Round(num, den), cyclomatic, cognitive, Round(mi2, 2), issues,
                       lines, functions, classes, comments,
                       generateImprovementSuggestions(c, issues, num, den))

\* the value returned by the catch branch of analyzeCodeTool.execute
AnalysisFailed ==
    AnalysisResult(0, 0, 0, 0, <<Issue("error", "Analysis failed", 0, "critical")>>,
                   0, 0, 0, 0, <<"Fix analysis errors before proceeding">>)

\* analyzeCodeTool.execute: the try block, and the catch branch when
\* calculateCyclomaticComplexity throws
analyzeCodeTool(c, lang) ==
    IF ToolCyclomaticThrows(c) THEN AnalysisFailed
    ELSE
    LET lines == Len(Split(c, NL))
        functions == CountFunctions(c)
        classes == CountClasses(c)
        comments == CountComments(c)
        cyclomatic == ToolCyclomaticComplexity(c)
        cognitive == CognitiveComplexity(c)
        mi2 == Maintainability2(cyclomatic, cognitive)
        den == 5 * lines
        num == QualityClamp(QualityNum(lines, functions, comments, mi2), den)
        issues == ToolDetectCodeIssues(c, lang)
    IN  AnalysisResult(Round(num, den), cyclomatic, cognitive, Round(mi2, 2), issues,
                       lines, functions, classes, comments,
                       generateImprovementSuggestions(c, issues, num, den))

\* /if|else|while|for|switch|case|catch|&&|\|\||\?|:/g
FallbackCyclomaticRegExp(s) ==
    LiteralsRegExp(s, << <<"i", "f">>, <<"e", "l", "s", "e">>, <<"w", "h", "i", "l", "e">>,
                         <<"f", "o", "r">>, <<"s", "w", "i", "t", "c", "h">>,
                         <<"c", "a", "s", "e">>, <<"c", "a", "t", "c", "h">>, <<"&", "&">>,
                         <<"|", "|">>, <<"?">>, <<":">> >>)

\* /for|while|forEach|map|filter|reduce/g
FallbackCognitiveRegExp(s) ==
    LiteralsRegExp(s, << <<"f", "o", "r">>, <<"w", "h", "i", "l", "e">>,
                         <<"f", "o", "r", "E", "a", "c", "h">>, <<"m", "a", "p">>,
                         <<"f", "i", "l", "t", "e", "r">>, <<"r", "e", "d", "u", "c", "e">> >>)

\* Math.max(20, Math.min(100, num / den)), times den
FallbackClamp(num, den) == Max(20 * den, Min(100 * den, num))

\* the local fallback of the analyze endpoint (after the tool server call failed)
fallbackAnalysis(c) ==
    LET lines == Len(Split(c, NL))
        functions == CountFunctions(c)
        classes == CountClasses(c)
        comments == CountComments(c)
        \* 100 - functions / lines * 50 + comments / lines * 30 + (classes > 0 ? 10 : 0)
        num == FallbackClamp(100 * lines - 50 * functions + 30 * comments
                               + (IF classes > 0 THEN 10 * lines ELSE 0), lines)
        cyclomatic == GlobalMatchCount(c, FallbackCyclomaticRegExp(c)) + 1
        cognitive == cyclomatic + GlobalMatchCount(c, FallbackCognitiveRegExp(c))
        mi2 == Maintainability2(cyclomatic, cognitive)
        issues == If(cyclomatic > 10,
                     Issue("warning", "High cyclomatic complexity detected", 1, "medium"))
        suggestions ==
               Push(10 * comments < lines,
                    <<"Add more comments to improve code readability">>)
            \o Push(10 * functions > 3 * lines,
                    <<"Consider if all functions are necessary - high function density detected">>)
            \o Push(Includes(c, <<"c", "o", "n", "s", "o", "l", "e", ".", "l", "o", "g">>),
                    <<"Remove console.log statements before production">>)
            \o Push(Includes(c, <<"T", "O", "D", "O">>) \/ Includes(c, <<"F", "I", "X", "M", "E">>),
                    <<"Address TODO/FIXME comments in the code">>)
    IN  AnalysisResult(Round(num, lines), cyclomatic, cognitive, Round(mi2, 2), issues,
                       lines, functions, classes, comments, suggestions)

(***************************************************************************)
(* SpecQual: one call of a quality analyzer on every bounded source text   *)
(***************************************************************************)
\* source fragments that the quality metrics react to
QualTokens ==
    { <<NL>>,
      <<" ">>,
      <<"f", "u", "n", "c", "t", "i", "o", "n", " ", "f">>,
      <<"c", "o", "n", "s", "t", " ", "g", "=", "(">>,
      <<"/", "/">>,
      <<"c", "l", "a", "s", "s", " ", "A">>,
      <<"i", "f">>,
      <<"a", "?", "b", ":", "c">> }

InitQual ==
    /\ ServerInit
    /\ code \in CodesOver(QualTokens)
    /\ language \in Languages
    /\ framework = ""
    /\ op = "none"
    /\ result = NoResult
    /\ findings = <<>>

\* codeStore.analyzeCode(code, language)
AnalyzeCode ==
    /\ op = "none"
    /\ op' = "analyzeCode"
    /\ result' = analyzeCode(code, language)
    /\ UNCHANGED <<serverVars, code, language, framework, findings>>

\* analyzeCodeTool.execute({code, language})
AnalyzeCodeTool ==
    /\ op = "none"
    /\ op' = "analyzeCodeTool"
    /\ result' = analyzeCodeTool(code, language)
    /\ UNCHANGED <<serverVars, code, language, framework, findings>>

\* the analyze endpoint when the tool server is unavailable; the handler has
\* already answered 400 for an empty code
AnalyzeFallback ==
    /\ op = "none"
    /\ code # <<>>
    /\ op' = "analyzeFallback"
    /\ result' = fallbackAnalysis(code)
    /\ UNCHANGED <<serverVars, code, language, framework, findings>>

NextQual == AnalyzeCode \/ AnalyzeCodeTool \/ AnalyzeFallback

SpecQual == InitQual /\ [][NextQual]_vars

(***************************************************************************)
(* C7                                                                      *)
(***************************************************************************)
IsQualOp == op \in {"analyzeCode", "analyzeCodeTool", "analyzeFallback"}

\* C7 (analyzeCode, analyzeCodeTool.execute, the analyze endpoint's fallback):
\* the quality score is an integer in 0..100 for every code, a single empty
\* line included; the endpoint's fallback score is never below 20.
C7_QualityScoreRange ==
    IsQualOp =>
        /\ result.qualityScore \in 0..100
        /\ op = "analyzeFallback" => result.qualityScore >= 20

\* the store's score is clamped from below: three arrow functions on one line
C7_Witness ==
    /\ op = "analyzeCode"
    /\ result.metrics.functions = 3
    /\ result.metrics.linesOfCode = 1
    /\ result.qualityScore = 0

\* the fallback's score is clamped at 20, and the store scores the empty code
C7_WitnessFallback ==
    /\ op = "analyzeFallback"
    /\ result.metrics.functions = 3
    /\ result.qualityScore = 20

C7_WitnessEmptyLine ==
    /\ op = "analyzeCode"
    /\ code = <<>>
    /\ result.qualityScore = 78

(***************************************************************************)
(* Spec: the CodeStore singleton under its file operations, its session    *)
(* operations and calls of its three analyzers                             *)
(***************************************************************************)
MaxIds == 1

\* the values uuidv4() returns, and the strings a caller can pass as an id
Uuids == 1..MaxIds
CallerIds == 0..MaxIds

FileNames == {"a.ts"}
SessionNames == {"review"}
SessionStatuses == {"pending", "completed"}

\* an optional property of an object: absent, or present with a value
Absent == <<>>
Present(v) == <<v>>
Optional(S) == {Absent} \cup {Present(v) : v \in S}
OrElse(opt, v) == IF opt = Absent THEN v ELSE opt[1]

\* Map.prototype.set and Map.prototype.delete
MapSet(map, k, v) == [x \in DOMAIN map \cup {k} |-> IF x = k THEN v ELSE map[x]]
MapDelete(map, k) == [x \in DOMAIN map \ {k} |-> map[x]]

\* Omit<CodeFile, 'id' | 'lastModified'> and Partial<CodeFile>; the time
\* stamps are written and never read, and are left out of the records
FileData == [name : FileNames]
FileUpdates == [id : Optional(CallerIds), name : Optional(FileNames)]
SessionData == [name : SessionNames]
SessionUpdates == [id : Optional(CallerIds), status : Optional(SessionStatuses)]

\* { id: uuidv4(), ...fileData, lastModified }, stored under its id
addFile(map, uuid, fileData) ==
    MapSet(map, uuid, [id |-> uuid, name |-> fileData.name])

\* { ...file, ...updates, lastModified }, stored under the id argument
updateFile(map, id, updates) ==
    IF id \in DOMAIN map
    THEN MapSet(map, id, [id   |-> OrElse(updates.id, map[id].id),
                          name |-> OrElse(updates.name, map[id].name)])
    ELSE map

deleteFile(map, id) == MapDelete(map, id)

\* { id: uuidv4(), ...sessionData, files: [], status: 'pending', ... }
createSession(map, uuid, sessionData) ==
    MapSet(map, uuid, [id |-> uuid, name |-> sessionData.name,
                       files |-> <<>>, status |-> "pending"])

\* { ...session, ...updates, updatedAt }, stored under the id argument
updateSession(map, id, updates) ==
    IF id \in DOMAIN map
    THEN MapSet(map, id, [id     |-> OrElse(updates.id, map[id].id),
                          name   |-> map[id].name,
                          files  |-> map[id].files,
                          status |-> OrElse(updates.status, map[id].status)])
    ELSE map

deleteSession(map, id) == MapDelete(map, id)

\* the (code, language) pairs handed to the store's analyzers
SampleInputs ==
    { << <<"i", "n", "n", "e", "r", "H", "T", "M", "L">>, "javascript" >>,
      << <<"f", "o", "r", "\n", "f", "u", "n", "c", "t", "i", "o", "n", " ", "f">>, "python" >> }

httpVars == <<request, pc, timer, remote, response>>

SampleCodes == {in[1] : in \in SampleInputs}

\* what the store's analyzers return on the sample codes, computed once
ScanSecurityOn == [c \in SampleCodes, lang \in Languages |-> scanSecurity(c, lang)]
AnalyzePerformanceOn == [c \in SampleCodes, lang \in Languages |-> analyzePerformance(c, lang)]
AnalyzeCodeOn == [c \in SampleCodes, lang \in Languages |-> analyzeCode(c, lang)]
\* a store operation between two analyzer calls is remembered in first
StoreChanged ==
    IF first # NoResult /\ first.phase = "called"
    THEN [first EXCEPT !.phase = "storeChanged"]
    ELSE first

\* an analyzer call: the first one is remembered with what it returned, and
\* so is the fact that the same call was made again after a store operation
Called(o, c, lang) ==
    IF first = NoResult
    THEN [op |-> o, code |-> c, language |-> lang, result |-> result', phase |-> "called"]
    ELSE IF first.phase = "storeChanged" /\ first.op = o /\ first.code = c /\ first.language = lang
         THEN [first EXCEPT !.phase = "repeated"]
         ELSE first

Init ==
    /\ code = <<>>
    /\ language = "javascript"
    /\ framework = ""
    /\ op = "none"
    /\ result = NoResult
    /\ findings = <<>>
    /\ ServerInit

AddFile ==
    \E uuid \in Uuids \ DOMAIN files, fileData \in FileData :
        /\ files' = addFile(files, uuid, fileData)
        /\ first' = StoreChanged
        /\ UNCHANGED <<callVars, sessions, httpVars>>

UpdateFile ==
    \E id \in CallerIds, updates \in FileUpdates :
        /\ files' = updateFile(files, id, updates)
        /\ first' = StoreChanged
        /\ UNCHANGED <<callVars, sessions, httpVars>>

DeleteFile ==
    \E id \in CallerIds :
        /\ files' = deleteFile(files, id)
        /\ first' = StoreChanged
        /\ UNCHANGED <<callVars, sessions, httpVars>>

CreateSession ==
    \E uuid \in Uuids \ DOMAIN sessions, sessionData \in SessionData :
        /\ sessions' = createSession(sessions, uuid, sessionData)
        /\ first' = StoreChanged
        /\ UNCHANGED <<callVars, files, httpVars>>

UpdateSession ==
    \E id \in CallerIds, updates \in SessionUpdates :
        /\ sessions' = updateSession(sessions, id, updates)
        /\ first' = StoreChanged
        /\ UNCHANGED <<callVars, files, httpVars>>

DeleteSession ==
    \E id \in CallerIds :
        /\ sessions' = deleteSession(sessions, id)
        /\ first' = StoreChanged
        /\ UNCHANGED <<callVars, files, httpVars>>

\* mutant: the scan reads the store: it reports one point less per stored file
ScanSecurityCall_ReadsFiles ==
    \E in \in SampleInputs :
        /\ op' = "scanSecurity"
        /\ code' = in[1]
        /\ language' = in[2]
        /\ result' = [ScanSecurityOn[in[1], in[2]] EXCEPT !.securityScore = @ - Cardinality(DOMAIN files)]
        /\ first' = Called("scanSecurity", in[1], in[2])
        /\ UNCHANGED <<framework, findings, files, sessions, httpVars>>

\* codeStore.scanSecurity(code, language)
ScanSecurityCall ==
    \E in \in SampleInputs :
        /\ op' = "scanSecurity"
        /\ code' = in[1]
        /\ language' = in[2]
        /\ result' = ScanSecurityOn[in[1], in[2]]
        /\ first' = Called("scanSecurity", in[1], in[2])
        /\ UNCHANGED <<framework, findings, files, sessions, httpVars>>

\* codeStore.analyzePerformance(code, language)
AnalyzePerformanceCall ==
    \E in \in SampleInputs :
        /\ op' = "analyzePerformance"
        /\ code' = in[1]
        /\ language' = in[2]
        /\ result' = AnalyzePerformanceOn[in[1], in[2]]
        /\ first' = Called("analyzePerformance", in[1], in[2])
        /\ UNCHANGED <<framework, findings, files, sessions, httpVars>>

\* codeStore.analyzeCode(code, language)
AnalyzeCodeCall ==
    \E in \in SampleInputs :
        /\ op' = "analyzeCode"
        /\ code' = in[1]
        /\ language' = in[2]
        /\ result' = AnalyzeCodeOn[in[1], in[2]]
        /\ first' = Called("analyzeCode", in[1], in[2])
        /\ UNCHANGED <<framework, findings, files, sessions, httpVars>>

Next ==
    \/ AddFile \/ UpdateFile \/ DeleteFile
    \/ CreateSession \/ UpdateSession \/ DeleteSession
    \/ ScanSecurityCall \/ AnalyzePerformanceCall \/ AnalyzeCodeCall

Spec == Init /\ [][Next]_vars

(***************************************************************************)
(* C3                                                                      *)
(***************************************************************************)
SameCallAsFirst ==
    /\ first # NoResult
    /\ op = first.op
    /\ code = first.code
    /\ language = first.language

EmptyBody(kind) ==
    [kind |-> kind, message |-> Absent, code |-> Absent, language |-> Absent,
     projectName |-> Absent, repoUrl |-> Absent]

NonObjectBodies == {EmptyBody("unparseable"), EmptyBody("null")}

RepoUrls == {<<>>, <<"o", "/", "r">>, <<"o", "/">>}

ChatBodies ==
    NonObjectBodies \cup
    {[EmptyBody("object") EXCEPT !.message = m] : m \in Optional({"", "hello"})}

\* code and language of a body that lacks one of them, or holds an empty one
DefectiveFields ==
    LET c == CHOOSE x \in SampleCodes : TRUE IN
    { <<Absent, Absent>>,
      <<Absent, Present("javascript")>>,
      <<Present(<<>>), Present("javascript")>>,
      <<Present(c), Absent>>,
      <<Present(c), Present("")>> }

CodeBodies ==
    NonObjectBodies \cup
    {[EmptyBody("object") EXCEPT !.code = Present(c), !.language = Present(l)] :
        c \in SampleCodes, l \in Languages} \cup
    {[EmptyBody("object") EXCEPT !.code = d[1], !.language = d[2]] : d \in DefectiveFields}

DocumentationBodies ==
    CodeBodies \cup
    {[EmptyBody("object") EXCEPT !.code = Present(in[1]), !.language = Present(in[2]),
                                 !.projectName = n] :
        in \in SampleInputs, n \in Optional({"", "Sentra"})}

RepositoryBodies ==
    NonObjectBodies \cup
    {[EmptyBody("object") EXCEPT !.repoUrl = u] : u \in Optional(RepoUrls)}

\* const { ... } = await request.json() throws for text that is not JSON and
\* for null, which cannot be destructured
ParseThrows(body) == body.kind # "object"

\* !x for an optional string, and for an optional text kept as characters
NotString(opt) == opt = Absent \/ opt[1] = ""
NotText(opt) == opt = Absent \/ opt[1] = <<>>

Json(status, body) == [status |-> status, body |-> body]
ErrorResponse(status, message) == Json(status, [error |-> message])

\* codeStore.generateDocumentation(code, language, projectName)
generateDocumentation(c, lang, projectName) ==
    LET functions == CountFunctions(c)
        classes == CountClasses(c)
        title == IF NotString(projectName) THEN "CodeGuardian Project" ELSE projectName[1]
    IN  [documentation |-> [readme       |-> <<"# ", title, "\n\nGenerated documentation...">>,
                            apiDocs      |-> "API documentation...",
                            codeComments |-> c,
                            examples     |-> <<"Usage examples...">>],
         coverage      |-> [functions |-> (7 * functions) \div 10,
                            classes   |-> (6 * classes) \div 10,
                            apis      |-> 0,
                            coverage  |-> 70],
         suggestions   |-> <<"Add JSDoc comments to functions",
                             "Create comprehensive README",
                             "Document API endpoints",
                             "Add usage examples">>]

\* what generateDocumentation returns on the sample codes, computed once
GenerateDocumentationOn ==
    [c \in SampleCodes, lang \in Languages, projectName \in {<<>>, <<"">>, <<"Sentra">>} |->
        generateDocumentation(c, lang, projectName)]

\* a handler that has answered, or none yet: the next request can come in
Ready == pc \in {"idle", "done"}

\* the handler answers without calling an analyzer or anyone else
Answer(resp) ==
    /\ pc' = "done"
    /\ response' = resp
    /\ timer' = "unset"
    /\ remote' = NoRemote
    /\ op' = "none"
    /\ result' = NoResult
    /\ UNCHANGED <<code, language>>

\* the handler answers with what a store analyzer returned
AnswerAnalysis(o, c, lang, r) ==
    /\ pc' = "done"
    /\ response' = Json(200, r)
    /\ timer' = "unset"
    /\ remote' = NoRemote
    /\ op' = o
    /\ code' = c
    /\ language' = lang
    /\ result' = r

\* the handler starts a fetch and awaits it
Fetch(armed) ==
    /\ pc' = "fetch"
    /\ response' = NoResponse
    /\ timer' = IF armed THEN "armed" ELSE "unset"
    /\ remote' = [state |-> "pending", data |-> NoData]
    /\ op' = "none"
    /\ result' = NoResult
    /\ UNCHANGED <<code, language>>

storeVars == <<files, sessions, first>>

\* POST /api/code/performance
PerformanceRequest ==
    \E body \in CodeBodies :
        /\ Ready
        /\ request' = [endpoint |-> "performance", body |-> body]
        /\ IF ParseThrows(body)
           THEN Answer(ErrorResponse(500, "Failed to analyze performance"))
           ELSE IF NotText(body.code) \/ NotString(body.language)
           THEN Answer(ErrorResponse(400, "Code and language are required"))
           ELSE AnswerAnalysis("analyzePerformance", body.code[1], body.language[1],
                               AnalyzePerformanceOn[body.code[1], body.language[1]])
        /\ UNCHANGED <<framework, findings, storeVars>>

\* mutant: the security handler keeps the submitted code as a file of the store
SecurityRequest_KeepsFile ==
    \E body \in CodeBodies :
        /\ Ready
        /\ request' = [endpoint |-> "security", body |-> body]
        /\ IF ParseThrows(body)
           THEN Answer(ErrorResponse(500, "Failed to scan security"))
           ELSE IF NotText(body.code) \/ NotString(body.language)
           THEN Answer(ErrorResponse(400, "Code and language are required"))
           ELSE AnswerAnalysis("scanSecurity", body.code[1], body.language[1],
                               ScanSecurityOn[body.code[1], body.language[1]])
        /\ files' = IF DOMAIN files = Uuids THEN files
                    ELSE addFile(files, CHOOSE u \in Uuids : u \notin DOMAIN files,
                                 [name |-> "a.ts"])
        /\ UNCHANGED <<framework, findings, sessions, first>>

\* POST /api/code/security
SecurityRequest ==
    \E body \in CodeBodies :
        /\ Ready
        /\ request' = [endpoint |-> "security", body |-> body]
        /\ IF ParseThrows(body)
           THEN Answer(ErrorResponse(500, "Failed to scan security"))
           ELSE IF NotText(body.code) \/ NotString(body.language)
           THEN Answer(ErrorResponse(400, "Code and language are required"))
           ELSE AnswerAnalysis("scanSecurity", body.code[1], body.language[1],
                               ScanSecurityOn[body.code[1], body.language[1]])
        /\ UNCHANGED <<framework, findings, storeVars>>

\* POST /api/code/documentation
DocumentationRequest ==
    \E body \in DocumentationBodies :
        /\ Ready
        /\ request' = [endpoint |-> "documentation", body |-> body]
        /\ IF ParseThrows(body)
           THEN Answer(ErrorResponse(500, "Failed to generate documentation"))
           ELSE IF NotText(body.code) \/ NotString(body.language)
           THEN Answer(ErrorResponse(400, "Code and language are required"))
           ELSE AnswerAnalysis("generateDocumentation", body.code[1], body.language[1],
                               GenerateDocumentationOn[body.code[1], body.language[1],
                                                       body.projectName])
        /\ UNCHANGED <<framework, findings, storeVars>>

\* the handler resumes after an await and answers
Respond(resp) ==
    /\ pc' = "done"
    /\ response' = resp
    /\ UNCHANGED <<request, remote>>

\* the handler resumes after fetch resolved with an OK status and awaits
\* response.json()
AwaitJson ==
    /\ pc' = "json"
    /\ UNCHANGED <<request, remote, response>>

\* a fetch that has settled: rejected (network error or abort), or resolved
\* with a status
Settled == remote.state # "pending"
Rejected == remote.state \in {"rejected", "aborted"}

AgentText == "agent answer"
ProcessingText == "I received your message and I'm processing it."
FallbackText == "AI Code Analysis Assistant: I'm here to help with your development needs!"

\* what the body of the agent's answer can be
ChatData ==
    {[kind |-> "unparseable"], [kind |-> "null"]} \cup
    {[kind |-> "object", text |-> t] : t \in Optional({"", AgentText})}

\* mutant: the agent failure is reported as an error
ChatFallbackResponse_Error == ErrorResponse(500, "Failed to process request")

\* the response after the inner try block
ChatFallbackResponse == Json(200, [response |-> FallbackText])

\* POST /api/ai/chat up to its first await of fetch
ChatRequest ==
    \E body \in ChatBodies :
        /\ Ready
        /\ request' = [endpoint |-> "chat", body |-> body]
        /\ IF ParseThrows(body)
           THEN Answer(ErrorResponse(500, "Failed to process request"))
           ELSE IF NotString(body.message)
           THEN Answer(ErrorResponse(400, "Message is required"))
           ELSE Fetch(TRUE)
        /\ UNCHANGED <<framework, findings, storeVars>>

\* the chat handler after await fetch: a rejection goes to the catch block
\* and leaves the timer alone; otherwise clearTimeout, then response.ok
ChatFetchSettled ==
    /\ request.endpoint = "chat"
    /\ pc = "fetch"
    /\ Settled
    /\ IF Rejected
       THEN timer' = timer /\ Respond(ChatFallbackResponse)
       ELSE /\ timer' = "cleared"
            /\ IF remote.state = "ok" THEN AwaitJson ELSE Respond(ChatFallbackResponse)
    /\ UNCHANGED <<callVars, storeVars>>

\* the chat handler after await response.json(): data.text || '...', and the
\* catch block when json() rejects or data is null
ChatJsonSettled ==
    /\ request.endpoint = "chat"
    /\ pc = "json"
    /\ remote.data # NoData
    /\ IF remote.data.kind = "object"
       THEN Respond(Json(200, [response |-> IF NotString(remote.data.text)
                                            THEN ProcessingText
                                            ELSE remote.data.text[1]]))
       ELSE Respond(ChatFallbackResponse)
    /\ UNCHANGED <<timer, callVars, storeVars>>

\* setTimeout(() => controller.abort(), 5000): the callback runs after the
\* continuations of settled promises; abort rejects a pending fetch
TimerFires ==
    /\ timer = "armed"
    /\ ~(pc = "fetch" /\ Settled)
    /\ timer' = "fired"
    /\ remote' = IF pc = "fetch" THEN [remote EXCEPT !.state = "aborted"] ELSE remote
    /\ UNCHANGED <<request, pc, response, callVars, storeVars>>

\* the agent or the tool server: the connection fails
RemoteRejects ==
    /\ pc = "fetch"
    /\ remote.state = "pending"
    /\ remote' = [remote EXCEPT !.state = "rejected"]
    /\ UNCHANGED <<request, pc, timer, response, callVars, storeVars>>

\* the agent or the tool server: the status line and headers arrive
RemoteAnswers ==
    \E ok \in BOOLEAN :
        /\ pc = "fetch"
        /\ remote.state = "pending"
        /\ remote' = [remote EXCEPT !.state = IF ok THEN "ok" ELSE "notOk"]
        /\ UNCHANGED <<request, pc, timer, response, callVars, storeVars>>

\* what analyzeCodeTool/execute can send as a body
AnalyzeData(body) ==
    {[kind |-> "unparseable"], [kind |-> "null"],
     [kind |-> "object", value |-> analyzeCodeTool(body.code[1], body.language[1])]}

\* what repositoryConnectorTool/execute can send as a body: an object with
\* the tool's four properties, or with none of them
RepositoryData ==
    {[kind |-> "unparseable"], [kind |-> "null"]} \cup
    {[kind |-> "object", repository |-> v, files |-> v, statistics |-> v, analysis |-> v] :
        v \in Optional({"from the tool"})}

\* the agent or the tool server: the body arrives
RemoteSendsBody ==
    \E data \in CASE request.endpoint = "chat" -> ChatData
                  [] request.endpoint = "analyze" -> AnalyzeData(request.body)
                  [] request.endpoint = "repository" -> RepositoryData
                  [] OTHER -> {} :
        /\ pc = "json"
        /\ remote.data = NoData
        /\ remote' = [remote EXCEPT !.data = data]
        /\ UNCHANGED <<request, pc, timer, response, callVars, storeVars>>

\* data.qualityScore || Math.floor(Math.random() * 40) + 60
QualityScoreOr(data) == IF data.qualityScore = 0 THEN 60..99 ELSE {data.qualityScore}

\* the success response of the analyze endpoint on the tool path; the tool's
\* answer always carries complexity, issues, suggestions and metrics
AnalyzeSuccess(data, qualityScore) ==
    Json(200, [success        |-> TRUE,
               analysisResult |-> data,
               qualityScore   |-> qualityScore,
               complexity     |-> data.complexity,
               issues         |-> data.issues,
               suggestions    |-> data.suggestions,
               metrics        |-> data.metrics])

\* mutant: a failure of the tool server is reported as an error
AnalyzeLocally_Error ==
    /\ Respond(ErrorResponse(500, "Failed to analyze code"))
    /\ UNCHANGED callVars

\* the analyze endpoint answers with its local analysis
AnalyzeLocally ==
    LET c == request.body.code[1]
        r == fallbackAnalysis(c)
    IN  /\ Respond(AnalyzeSuccess(r, r.qualityScore))
        /\ op' = "analyzeFallback"
        /\ code' = c
        /\ language' = request.body.language[1]
        /\ result' = r
        /\ UNCHANGED <<framework, findings>>

\* POST /api/code/analyze up to its await of fetch
AnalyzeRequest ==
    \E body \in CodeBodies :
        /\ Ready
        /\ request' = [endpoint |-> "analyze", body |-> body]
        /\ IF ParseThrows(body)
           THEN Answer(ErrorResponse(500, "Failed to analyze code"))
           ELSE IF NotText(body.code) \/ NotString(body.language)
           THEN Answer(ErrorResponse(400, "Code and language are required"))
           ELSE Fetch(FALSE)
        /\ UNCHANGED <<framework, findings, storeVars>>

\* the analyze handler after await fetch
AnalyzeFetchSettled ==
    /\ request.endpoint = "analyze"
    /\ pc = "fetch"
    /\ Settled
    /\ IF remote.state = "ok" THEN AwaitJson /\ UNCHANGED callVars ELSE AnalyzeLocally
    /\ UNCHANGED <<timer, storeVars>>

\* the analyze handler after await response.json()
AnalyzeJsonSettled ==
    /\ request.endpoint = "analyze"
    /\ pc = "json"
    /\ remote.data # NoData
    /\ IF remote.data.kind = "object"
       THEN \E qualityScore \in QualityScoreOr(remote.data.value) :
                /\ Respond(AnalyzeSuccess(remote.data.value, qualityScore))
                /\ UNCHANGED callVars
       ELSE AnalyzeLocally
    /\ UNCHANGED <<timer, storeVars>>

\* repoUrl.split('/').pop() || fallback
RepoName(url, fallback) ==
    LET parts == Split(url, "/")
        last == parts[Len(parts)]
    IN  IF last = <<>> THEN fallback ELSE last

\* the success response of the repository endpoint on the tool path
RepositorySuccess(url, data) ==
    Json(200, [success    |-> TRUE,
               repository |-> IF data.repository # Absent THEN data.repository
                              ELSE Present([name |-> RepoName(url, <<"Unknown">>), url |-> url,
                                            branch |-> "main", contributors |-> 1]),
               files      |-> IF data.files # Absent THEN data.files ELSE Present(<<>>),
               statistics |-> IF data.statistics # Absent THEN data.statistics
                              ELSE Present([totalFiles |-> 0, totalLines |-> 0]),
               analysis   |-> IF data.analysis # Absent THEN data.analysis
                              ELSE Present([overallHealth |-> 85, issues |-> <<>>,
                                            recommendations |-> <<>>])])

simulatedFiles ==
    << [path |-> "src/index.js", size |-> 1024, language |-> "javascript", complexity |-> 3],
       [path |-> "src/utils.js", size |-> 2048, language |-> "javascript", complexity |-> 5],
       [path |-> "package.json", size |-> 512, language |-> "json", complexity |-> 1],
       [path |-> "README.md", size |-> 256, language |-> "markdown", complexity |-> 1] >>

RECURSIVE TotalLines(_)
TotalLines(fs) == IF fs = <<>> THEN 0 ELSE (Head(fs).size \div 50) + TotalLines(Tail(fs))

\* the simulated analysis of the repository endpoint, with its two random draws
RepositorySimulated(url, contributors, overallHealth) ==
    Json(200, [success    |-> TRUE,
               repository |-> Present([name |-> RepoName(url, <<"Unknown Repository">>),
                                       url |-> url, branch |-> "main",
                                       contributors |-> contributors]),
               files      |-> Present(simulatedFiles),
               statistics |-> Present([totalFiles |-> Len(simulatedFiles),
                                       totalLines |-> TotalLines(simulatedFiles)]),
               analysis   |-> Present([overallHealth |-> overallHealth,
                                       issues |-> <<"Consider adding unit tests",
                                                    "Update dependencies to latest versions">>,
                                       recommendations |-> <<"Implement CI/CD pipeline",
                                                             "Add code coverage reporting",
                                                             "Set up automated security scanning">>])])

\* Math.floor(Math.random() * 5) + 1 and Math.floor(Math.random() * 20) + 80
RepositoryLocally ==
    \E contributors \in 1..5, overallHealth \in 80..99 :
        Respond(RepositorySimulated(request.body.repoUrl[1], contributors, overallHealth))

\* POST /api/repository/connect up to its await of fetch
RepositoryRequest ==
    \E body \in RepositoryBodies :
        /\ Ready
        /\ request' = [endpoint |-> "repository", body |-> body]
        /\ IF ParseThrows(body)
           THEN Answer(ErrorResponse(500, "Failed to connect to repository"))
           ELSE IF NotText(body.repoUrl)
           THEN Answer(ErrorResponse(400, "Repository URL is required"))
           ELSE Fetch(FALSE)
        /\ UNCHANGED <<framework, findings, storeVars>>

\* the repository handler after await fetch
RepositoryFetchSettled ==
    /\ request.endpoint = "repository"
    /\ pc = "fetch"
    /\ Settled
    /\ IF remote.state = "ok" THEN AwaitJson ELSE RepositoryLocally
    /\ UNCHANGED <<timer, callVars, storeVars>>

\* the repository handler after await response.json()
RepositoryJsonSettled ==
    /\ request.endpoint = "repository"
    /\ pc = "json"
    /\ remote.data # NoData
    /\ IF remote.data.kind = "object"
       THEN Respond(RepositorySuccess(request.body.repoUrl[1], remote.data))
       ELSE RepositoryLocally
    /\ UNCHANGED <<timer, callVars, storeVars>>

(***************************************************************************)
(* SpecHttp: the six handlers, one request at a time, against an agent and *)
(* a tool server that may fail, answer, or stay silent                     *)
(***************************************************************************)
NextHttp ==
    \/ ChatRequest \/ ChatFetchSettled \/ ChatJsonSettled \/ TimerFires
    \/ AnalyzeRequest \/ AnalyzeFetchSettled \/ AnalyzeJsonSettled
    \/ RepositoryRequest \/ RepositoryFetchSettled \/ RepositoryJsonSettled
    \/ PerformanceRequest \/ SecurityRequest \/ DocumentationRequest
    \/ RemoteRejects \/ RemoteAnswers \/ RemoteSendsBody

\* the event loop runs every continuation that is ready and every timer that
\* is due; nothing obliges the agent, the tool server or the clients to act
HandlersRun ==
    /\ WF_vars(ChatFetchSettled) /\ WF_vars(ChatJsonSettled) /\ WF_vars(TimerFires)
    /\ WF_vars(AnalyzeFetchSettled) /\ WF_vars(AnalyzeJsonSettled)
    /\ WF_vars(RepositoryFetchSettled) /\ WF_vars(RepositoryJsonSettled)

SpecHttp == Init /\ [][NextHttp]_vars /\ HandlersRun

(***************************************************************************)
(* C1                                                                      *)
(***************************************************************************)
ChatDone == request.endpoint = "chat" /\ pc = "done"

\* the call to the agent failed: fetch rejected, the timer aborted it, the
\* status was not OK, or the body was not JSON
AgentFailed ==
    \/ remote.state \in {"rejected", "aborted", "notOk"}
    \/ remote.state = "ok" /\ remote.data.kind = "unparseable"

\* C1 (POST /api/ai/chat): when the call to the agent has failed (rejected,
\* aborted by the timer, non-OK status, unparseable body), the handler
\* answers 200 with the static fallback text, never an error status.
C1_ChatFallback ==
    (ChatDone /\ AgentFailed) =>
        /\ response.status = 200
        /\ response.body = [response |-> FallbackText]

\* the timer fired while the agent was silent, and the handler has answered
C1_Witness ==
    /\ ChatDone
    /\ timer = "fired"
    /\ remote.state = "aborted"
    /\ response.status = 200

\* the agent's body was not JSON, and the handler has answered
C1_WitnessBody ==
    /\ ChatDone
    /\ remote.data.kind = "unparseable"
    /\ response.status = 200

(***************************************************************************)
(* C2                                                                      *)
(***************************************************************************)
ChatAwaiting == request.endpoint = "chat" /\ pc \in {"fetch", "json"}

\* C2 (POST /api/ai/chat): every chat request with a message is eventually
\* answered, whatever the agent does.  Refuted: clearTimeout runs as soon as
\* the headers arrive, so nothing bounds the wait for the body.
C2_EventuallyResponds == ChatAwaiting ~> ChatDone

\* while the handler waits for the agent's body, the timer is no longer armed
C2_BodyReadUnguarded ==
    (request.endpoint = "chat" /\ pc = "json") => timer = "cleared"

\* the handler waits for the body with the timer cleared
C2_WitnessStalled ==
    /\ request.endpoint = "chat"
    /\ pc = "json"
    /\ remote.data = NoData
    /\ timer = "cleared"

(***************************************************************************)
(* C10                                                                     *)
(***************************************************************************)
\* a required property of the parsed body is missing or empty
RequiredMissing ==
    CASE request.endpoint = "chat" -> NotString(request.body.message)
      [] request.endpoint = "repository" -> NotText(request.body.repoUrl)
      [] OTHER -> NotText(request.body.code) \/ NotString(request.body.language)

\* C10 (all six handlers): the answer is 400 exactly when the body was
\* parsed and a required property is missing or empty, and then no analyzer
\* ran and no fetch was made; a body that cannot be parsed is answered 500.
\* Refuted by the body null.
C10_BadRequest ==
    pc = "done" =>
        /\ response.status = 400 <=> (request.body.kind # "unparseable" /\ RequiredMissing)
        /\ response.status = 400 => (op = "none" /\ remote = NoRemote)
        /\ request.body.kind = "unparseable" => response.status = 500

\* what the handlers do: 400 exactly for an object without a required
\* property, 500 for null as for text that is not JSON
C10_ObjectBodies ==
    pc = "done" =>
        /\ response.status = 400 <=> (request.body.kind = "object" /\ RequiredMissing)
        /\ response.status = 400 => (op = "none" /\ remote = NoRemote)
        /\ request.body.kind # "object" => response.status = 500

(***************************************************************************)
(* C20                                                                     *)
(***************************************************************************)
\* C20 (CodeStore file and session operations): every entry stored under key
\* k has id k, in the files map and in the sessions map.  Refuted:
\* updateFile and updateSession spread the caller's updates, id included,
\* over the entry and store it under the old key.
C20_KeyIsId ==
    /\ \A k \in DOMAIN files : files[k].id = k
    /\ \A k \in DOMAIN sessions : sessions[k].id = k

\* what addFile and createSession alone guarantee: a new entry has its key as id
C20_NewEntryKeyIsId ==
    [][/\ \A k \in DOMAIN files' \ DOMAIN files : files'[k].id = k
       /\ \A k \in DOMAIN sessions' \ DOMAIN sessions : sessions'[k].id = k]_vars

(***************************************************************************)
(* C12                                                                     *)
(***************************************************************************)
\* the number of places where p occurs in s
Occurrences(s, p) == Cardinality({i \in 1..(Len(s) - Len(p) + 1) : OccursAt(s, p, i)})

\* a bottleneck of the nested-loops rule
IsNestedLoops(b) == b.type = "cpu" /\ b.description = "Nested loops detected"

\* C12 (detectPerformanceBottlenecks, analyzePerformanceBottlenecks): a line
\* is reported as nested loops only when it holds two occurrences of 'for'
\* or two of 'while'.  Refuted: each keyword is tested twice with includes,
\* so one occurrence is enough.
C12_NestedLoopsNeedTwo ==
    IsPerfOp =>
        LET lines == Split(code, NL) IN
        \A k \in 1..Len(result.bottlenecks) :
            IsNestedLoops(result.bottlenecks[k]) =>
                LET lowerLine == ToLowerCase(lines[result.bottlenecks[k].line]) IN
                \/ Occurrences(lowerLine, <<"f", "o", "r">>) >= 2
                \/ Occurrences(lowerLine, <<"w", "h", "i", "l", "e">>) >= 2

\* what the code does: a line is reported exactly when it holds a 'for' or a
\* 'while', in any letter case
C12_OneKeywordIsEnough ==
    IsPerfOp =>
        LET lines == Split(code, NL) IN
        \A i \in 1..Len(lines) :
            (\E k \in 1..Len(result.bottlenecks) :
                IsNestedLoops(result.bottlenecks[k]) /\ result.bottlenecks[k].line = i)
            <=> \/ Occurrences(ToLowerCase(lines[i]), <<"f", "o", "r">>) >= 1
                \/ Occurrences(ToLowerCase(lines[i]), <<"w", "h", "i", "l", "e">>) >= 1

(***************************************************************************)
(* C15                                                                     *)
(***************************************************************************)
\* C15 (analyzeCodeTool.execute): for every code and language the tool
\* returns the computed analysis, with cyclomatic complexity >= 1 and
\* linesOfCode >= 1, and not the all-zero 'Analysis failed' result.
\* Refuted: the keyword '?' makes new RegExp throw on every call.
C15_ToolReturnsAnalysis ==
    op = "analyzeCodeTool" =>
        /\ result.complexity.cyclomatic >= 1
        /\ result.metrics.linesOfCode >= 1
        /\ result # AnalysisFailed

\* what the code does: the tool returns the 'Analysis failed' result on
\* every input
C15_ToolAlwaysFails == op = "analyzeCodeTool" => result = AnalysisFailed

(***************************************************************************)
(* C19                                                                     *)
(***************************************************************************)
\* id, severity and line of every finding of a list
Shared(vulnerabilities) ==
    [k \in 1..Len(vulnerabilities) |->
        [id |-> vulnerabilities[k].id, severity |-> vulnerabilities[k].severity,
         line |-> vulnerabilities[k].line]]

\* a is b with some elements left out
RECURSIVE IsSubsequence(_, _)
IsSubsequence(a, b) ==
    IF a = <<>> THEN TRUE
    ELSE IF b = <<>> THEN FALSE
    ELSE IF Head(a) = Head(b) THEN IsSubsequence(Tail(a), Tail(b))
    ELSE IsSubsequence(a, Tail(b))

\* C19 (codeStore.scanSecurity against securityScannerTool): on the same
\* code and language the store's findings are a subsequence of the tool's,
\* with equal id, severity and line, and the store's score is not lower.
C19_StoreWithinTool ==
    op = "scanSecurity" =>
        \A fw \in Frameworks :
            LET tool == securityScannerTool(code, language, fw) IN
            /\ IsSubsequence(Shared(result.vulnerabilities), Shared(tool.vulnerabilities))
            /\ result.securityScore >= tool.securityScore

\* a line with two shared findings, and a finding that only the tool reports
C19_Witness ==
    /\ op = "scanSecurity"
    /\ Len(result.vulnerabilities) >= 2
    /\ result.vulnerabilities[1].line = result.vulnerabilities[2].line
    /\ Len(securityScannerTool(code, language, "").vulnerabilities) > Len(result.vulnerabilities)
    /\ result.securityScore > securityScannerTool(code, language, "").securityScore

(***************************************************************************)
(* C13                                                                     *)
(***************************************************************************)
AnalyzeDone == request.endpoint = "analyze" /\ pc = "done"

\* C13 (POST /api/code/analyze): when the fetch to the tool server rejects or
\* resolves with a non-OK status, the handler answers 200 with success: true
\* and the local analysis of the submitted code (linesOfCode is the number
\* of newline-separated lines, cyclomatic >= 1), never an error status.
C13_AnalyzeFallback ==
    (AnalyzeDone /\ remote.state \in {"rejected", "notOk"}) =>
        /\ response.status = 200
        /\ response.body.success
        /\ response.body.analysisResult = fallbackAnalysis(request.body.code[1])
        /\ response.body.metrics.linesOfCode = Len(Split(request.body.code[1], NL))
        /\ response.body.complexity.cyclomatic >= 1

\* the tool server refused the connection for a code of two lines
C13_Witness ==
    /\ AnalyzeDone
    /\ remote.state = "rejected"
    /\ response.status = 200
    /\ response.body.metrics.linesOfCode = 2

\* the tool server answered with a non-OK status
C13_WitnessNotOk ==
    /\ AnalyzeDone
    /\ remote.state = "notOk"
    /\ response.status = 200

(***************************************************************************)
(* C14                                                                     *)
(***************************************************************************)
\* C14 (POST /api/code/analyze): in every success response the top-level
\* qualityScore, complexity, issues, suggestions and metrics equal those of
\* analysisResult.  Refuted on the tool path: a qualityScore of 0 is falsy
\* and is replaced by a random score at the top level only.
C14_TopLevelIsAnalysisResult ==
    (AnalyzeDone /\ response.status = 200) =>
        /\ response.body.qualityScore = response.body.analysisResult.qualityScore
        /\ response.body.complexity = response.body.analysisResult.complexity
        /\ response.body.issues = response.body.analysisResult.issues
        /\ response.body.suggestions = response.body.analysisResult.suggestions
        /\ response.body.metrics = response.body.analysisResult.metrics

\* what the code does: the two scores differ only when the tool reported 0,
\* and then the top-level score is a draw from 60..99; the local path agrees
C14_ScoresDifferOnlyAtZero ==
    (AnalyzeDone /\ response.status = 200) =>
        /\ response.body.complexity = response.body.analysisResult.complexity
        /\ response.body.issues = response.body.analysisResult.issues
        /\ response.body.suggestions = response.body.analysisResult.suggestions
        /\ response.body.metrics = response.body.analysisResult.metrics
        /\ \/ response.body.qualityScore = response.body.analysisResult.qualityScore
           \/ /\ op = "none"
              /\ response.body.analysisResult.qualityScore = 0
              /\ response.body.qualityScore \in 60..99

(***************************************************************************)
(* SpecStoreHttp: the three handlers that call the CodeStore singleton,    *)
(* interleaved with its file and session operations                        *)
(***************************************************************************)
NextStoreHttp ==
    \/ AddFile \/ UpdateFile \/ DeleteFile
    \/ CreateSession \/ UpdateSession \/ DeleteSession
    \/ PerformanceRequest \/ SecurityRequest \/ DocumentationRequest

SpecStoreHttp == Init /\ [][NextStoreHttp]_vars

(***************************************************************************)
(* C11                                                                     *)
(***************************************************************************)
\* the answer that the request alone determines: 500 when the body cannot be
\* destructured, 400 without code or language, else the analysis of the code
ResponseIsOfRequest ==
    LET body == request.body IN
    IF body.kind # "object" THEN response.status = 500
    ELSE IF NotText(body.code) \/ NotString(body.language) THEN response.status = 400
    ELSE /\ response.status = 200
         /\ response.body =
              CASE request.endpoint = "performance" ->
                       analyzePerformance(body.code[1], body.language[1])
                [] request.endpoint = "security" ->
                       scanSecurity(body.code[1], body.language[1])
                [] request.endpoint = "documentation" ->
                       generateDocumentation(body.code[1], body.language[1], body.projectName)

\* C11 (POST performance, security, documentation): a handler step leaves
\* the files map and the sessions map as they were, and the response is
\* determined by the request alone, whatever requests and store operations
\* came before.
C11_Stateless ==
    /\ [](pc = "done" => ResponseIsOfRequest)
    /\ [][<<httpVars, callVars>>' # <<httpVars, callVars>>
            => (files' = files /\ sessions' = sessions)]_vars

\* a security request answered with findings while the store holds a file
\* and a session
C11_Witness ==
    /\ pc = "done"
    /\ request.endpoint = "security"
    /\ response.status = 200
    /\ response.body.vulnerabilities # <<>>
    /\ DOMAIN files # {}
    /\ DOMAIN sessions # {}

(***************************************************************************)
(* documentationGeneratorTool (code-analyzer.ts)                           *)
(*                                                                         *)
(* The texts that later steps search (the code, names, descriptions, the   *)
(* comment blocks) are kept as characters; the README and the API document *)
(* are kept as the values that their templates are filled with.  The       *)
(* pictographs that open the suggestions are left out.  The imports, the   *)
(* exports and the members of classes that analyzeCodeStructure collects   *)
(* are read by no later step.  No input holds a '$', which replace would   *)
(* expand in the replacement text.                                         *)
(***************************************************************************)
\* String.prototype.trim
Trim(s) ==
    LET a == SkipClass(s, 1, WhiteSpace)
        b == CHOOSE j \in 0..Len(s) :
                /\ j = 0 \/ s[j] \notin WhiteSpace
                /\ \A k \in (j + 1)..Len(s) : s[k] \in WhiteSpace
    IN  IF a > b THEN <<>> ELSE SubSeq(s, a, b)

\* the first position from i on where s holds a character of class, or
\* Len(s) + 1
IndexOfClass(s, i, class) ==
    CHOOSE j \in i..(Len(s) + 1) :
        /\ j = Len(s) + 1 \/ s[j] \in class
        /\ \A k \in i..(j - 1) : s[k] \notin class

\* \w+ read from position b
WordFrom(s, b) == SubSeq(s, b, SkipClass(s, b, WordChars) - 1)

\* const\s+(\w+)\s*=\s*(?:async\s+)?\(
ToolConstArrowEnd(s, i) ==
    IF ~OccursAt(s, <<"c", "o", "n", "s", "t">>, i) THEN 0
    ELSE LET a == i + 5
             b == SkipClass(s, a, WhiteSpace)
             c == SkipClass(s, b, WordChars)
             d == SkipClass(s, c, WhiteSpace)
             e == SkipClass(s, d + 1, WhiteSpace)
             f == SkipClass(s, e + 5, WhiteSpace)
             g == IF OccursAt(s, <<"a", "s", "y", "n", "c">>, e) /\ f > e + 5 THEN f ELSE e
         IN  IF b > a /\ c > b /\ OccursAt(s, <<"=">>, d) /\ OccursAt(s, <<"(">>, g)
             THEN g + 1 ELSE 0

\* export\s+(?:async\s+)?function\s+(\w+): the position of 'function', or 0
ExportFunctionAt(s, i) ==
    IF ~OccursAt(s, <<"e", "x", "p", "o", "r", "t">>, i) THEN 0
    ELSE LET a == i + 6
             b == SkipClass(s, a, WhiteSpace)
             c == SkipClass(s, b + 5, WhiteSpace)
             d == IF OccursAt(s, <<"a", "s", "y", "n", "c">>, b) /\ c > b + 5 THEN c ELSE b
         IN  IF b > a /\ FunctionDeclEnd(s, d) # 0 THEN d ELSE 0

\* functionMatch[1] || functionMatch[2] || functionMatch[3] of a match that
\* starts at i, or the empty string when the expression does not match there
FunctionNameAt(s, i) ==
    IF FunctionDeclEnd(s, i) # 0 THEN WordFrom(s, SkipClass(s, i + 8, WhiteSpace))
    ELSE IF ToolConstArrowEnd(s, i) # 0 THEN WordFrom(s, SkipClass(s, i + 5, WhiteSpace))
    ELSE IF ExportFunctionAt(s, i) # 0
         THEN WordFrom(s, SkipClass(s, ExportFunctionAt(s, i) + 8, WhiteSpace))
    ELSE <<>>

\* trimmedLine.match(/(?:function\s+(\w+)|const\s+(\w+)\s*=\s*(?:async\s+)?\(|
\* export\s+(?:async\s+)?function\s+(\w+))/): the captured name of the
\* leftmost match, or the empty string when there is none
FunctionName(line) ==
    LET t == Trim(line)
        at == {i \in 1..Len(t) : FunctionNameAt(t, i) # <<>>}
    IN  IF at = {} THEN <<>>
        ELSE FunctionNameAt(t, CHOOSE i \in at : \A j \in at : i <= j)

extractFunctionParameters(line) ==
    LET p == IndexOfClass(line, 1, {"("})
        q == IndexOfClass(line, p + 1, {")"})
    IN  IF p > Len(line) \/ q > Len(line) THEN <<>>
        ELSE LET raw == Split(SubSeq(line, p + 1, q - 1), ",")
                 kept == SelectSeq([k \in DOMAIN raw |-> Trim(raw[k])], LAMBDA x : x # <<>>)
             IN  [k \in DOMAIN kept |-> Trim(Head(Split(kept[k], ":")))]

\* lines.findIndex(line => line.includes(text)), counted from 1; 0 when no
\* line includes it
FindLine(lines, text) ==
    LET at == {i \in DOMAIN lines : Includes(lines[i], text)}
    IN  IF at = {} THEN 0 ELSE CHOOSE i \in at : \A j \in at : i <= j

StartsWith(s, p) == OccursAt(s, p, 1)

\* prevLine.replace(/^\/\/\s*|\*\s*/, '') for a line that starts with '//'
\* or with '*'
StripCommentMark(prevLine) ==
    LET a == IF StartsWith(prevLine, <<"/", "/">>) THEN 3 ELSE 2
    IN  SubSeq(prevLine, SkipClass(prevLine, a, WhiteSpace), Len(prevLine))

extractFunctionDescription(c, funcName) ==
    LET lines == Split(c, NL)
        funcIndex == FindLine(lines, funcName)
        prevLine == Trim(lines[funcIndex - 1])
    IN  IF funcIndex > 1 /\ (StartsWith(prevLine, <<"/", "/">>) \/ StartsWith(prevLine, <<"*">>))
        THEN StripCommentMark(prevLine)
        ELSE <<"F", "u", "n", "c", "t", "i", "o", "n", " ">> \o funcName

HttpMethods == <<<<"g", "e", "t">>, <<"p", "o", "s", "t">>, <<"p", "u", "t">>, <<"d", "e", "l", "e", "t", "e">>, <<"p", "a", "t", "c", "h">>>>
HttpMethodsUpperCase == <<"GET", "POST", "PUT", "DELETE", "PATCH">>
\* the quotes that open an endpoint; no input holds the third one, the
\* backquote
Quotes == {"'", "\""}

\* (?:app\.|router\.)(get|post|put|delete|patch)\s*\(\s*Q([^Q]+)Q matched at
\* i, where Q is a quote: the method and the endpoint,
\* or no element
ApiAt(s, i) ==
    LET a == IF OccursAt(s, <<"a", "p", "p", ".">>, i) THEN i + 4
             ELSE IF OccursAt(s, <<"r", "o", "u", "t", "e", "r", ".">>, i) THEN i + 7 ELSE 0
        ms == {k \in DOMAIN HttpMethods : OccursAt(s, HttpMethods[k], a)}
        m == CHOOSE k \in ms : TRUE
        b == SkipClass(s, a + Len(HttpMethods[m]), WhiteSpace)
        c == SkipClass(s, b + 1, WhiteSpace)
        d == IndexOfClass(s, c + 1, Quotes)
    IN  IF /\ a # 0
           /\ ms # {}
           /\ OccursAt(s, <<"(">>, b)
           /\ c <= Len(s)
           /\ s[c] \in Quotes
           /\ d > c + 1
           /\ d <= Len(s)
        THEN <<[method |-> HttpMethodsUpperCase[m], endpoint |-> SubSeq(s, c + 1, d - 1)]>>
        ELSE <<>>

\* line.match(/req\.(\w+)/g) with 'req.' taken off every match, from
\* position i on
RECURSIVE extractAPIParameters(_, _)
extractAPIParameters(line, i) ==
    LET at == {k \in i..Len(line) :
                  /\ OccursAt(line, <<"r", "e", "q", ".">>, k)
                  /\ SkipClass(line, k + 4, WordChars) > k + 4}
        k == CHOOSE x \in at : \A y \in at : x <= y
        e == SkipClass(line, k + 4, WordChars)
    IN  IF at = {} THEN <<>>
        ELSE <<SubSeq(line, k + 4, e - 1)>> \o extractAPIParameters(line, e)

extractAPIDescription(c, endpoint) ==
    LET lines == Split(c, NL)
        apiIndex == FindLine(lines, endpoint)
        prevLine == Trim(lines[apiIndex - 1])
    IN  IF apiIndex > 1 /\ StartsWith(prevLine, <<"/", "/">>)
        THEN SubSeq(prevLine, SkipClass(prevLine, 3, WhiteSpace), Len(prevLine))
        ELSE <<"A", "P", "I", " ", "e", "n", "d", "p", "o", "i", "n", "t", ":", " ">> \o endpoint

\* analyzeCodeStructure(code, language): the functions, the number of
\* classes and the API endpoints, line by line
analyzeCodeStructure(c) ==
    LET lines == Split(c, NL)
        func(k) ==
            LET funcName == FunctionName(lines[k])
            IN  IF funcName = <<>> THEN <<>>
                ELSE <<[name |-> funcName,
                        parameters |-> extractFunctionParameters(lines[k]),
                        description |-> extractFunctionDescription(c, funcName)]>>
        isClass(k) ==
            LET t == Trim(lines[k]) IN \E i \in 1..Len(t) : ClassDeclEnd(t, i) # 0
        api(k) ==
            LET t == Trim(lines[k])
                at == {i \in 1..Len(t) : ApiAt(t, i) # <<>>}
                apiMatch == ApiAt(t, CHOOSE i \in at : \A j \in at : i <= j)[1]
            IN  IF at = {} THEN <<>>
                ELSE <<[endpoint |-> apiMatch.endpoint,
                        method |-> apiMatch.method,
                        parameters |-> extractAPIParameters(lines[k], 1),
                        description |-> extractAPIDescription(c, apiMatch.endpoint)]>>
    IN  [functions |-> Concat([k \in DOMAIN lines |-> func(k)]),
         classes |-> Cardinality({k \in DOMAIN lines : isClass(k)}),
         apis |-> Concat([k \in DOMAIN lines |-> api(k)])]

\* parts.join(', ')
RECURSIVE Join(_)
Join(parts) ==
    IF parts = <<>> THEN <<>>
    ELSE IF Len(parts) = 1 THEN parts[1]
    ELSE parts[1] \o <<",", " ">> \o Join(Tail(parts))

\* (function\s+NAME|const\s+NAME\s*=) matched at i: the end of the match, or 0
NamedDeclEnd(s, i, funcName) ==
    LET kw == IF OccursAt(s, <<"f", "u", "n", "c", "t", "i", "o", "n">>, i) THEN 8
              ELSE IF OccursAt(s, <<"c", "o", "n", "s", "t">>, i) THEN 5 ELSE 0
        a == i + kw
        b == SkipClass(s, a, WhiteSpace)
        c == b + Len(funcName)
        d == SkipClass(s, c, WhiteSpace)
    IN  IF kw = 0 \/ b = a \/ ~OccursAt(s, funcName, b) THEN 0
        ELSE IF kw = 8 THEN c
        ELSE IF OccursAt(s, <<"=">>, d) THEN d + 1 ELSE 0

\* enhancedCode.replace(funcRegex, replacement) with the global expression,
\* from position i on
RECURSIVE ReplaceDecls(_, _, _, _)
ReplaceDecls(s, i, funcName, replacement) ==
    LET at == {k \in i..Len(s) : NamedDeclEnd(s, k, funcName) # 0}
        k == CHOOSE x \in at : \A y \in at : x <= y
    IN  IF at = {} THEN SubSeq(s, i, Len(s))
        ELSE SubSeq(s, i, k - 1) \o replacement
                \o ReplaceDecls(s, NamedDeclEnd(s, k, funcName), funcName, replacement)

\* one round of the forEach of generateEnhancedCodeComments: every match of
\* the function's expression is replaced by the comment block and match[0]
CommentFunction(enhancedCode, func) ==
    LET at == {i \in 1..Len(enhancedCode) : NamedDeclEnd(enhancedCode, i, func.name) # 0}
        first0 == CHOOSE i \in at : \A j \in at : i <= j
        match0 == SubSeq(enhancedCode, first0, NamedDeclEnd(enhancedCode, first0, func.name) - 1)
        description == IF func.description = <<>> THEN <<"F", "u", "n", "c", "t", "i", "o", "n", " ">> \o func.name
                       ELSE func.description
        comment == <<"/", "*", "*", "\n", " ", "*", " ">> \o description \o <<"\n", " ", "*", " ", "@", "p", "a", "r", "a", "m", " ", "{", "*", "}", " ">>
                       \o Join(func.parameters) \o <<"\n", " ", "*", "/", "\n">>
    IN  IF at = {} THEN enhancedCode
        ELSE ReplaceDecls(enhancedCode, 1, func.name, comment \o match0)

RECURSIVE generateEnhancedCodeComments(_, _)
generateEnhancedCodeComments(c, functions) ==
    IF functions = <<>> THEN c
    ELSE generateEnhancedCodeComments(CommentFunction(c, Head(functions)), Tail(functions))

\* a value that is not a string: typeof projectName === 'number'
NotAString == <<"typeof", "number">>
IsString(opt) == Len(opt) = 1

\* generateREADME(projectTitle, framework, structure): the values that fill
\* the template
generateREADME(projectTitle, fw, structure) ==
    [title |-> projectTitle,
     intro |-> IF NotString(fw) THEN "A modern application" ELSE fw[1],
     functions |-> Len(structure.functions),
     classes |-> structure.classes,
     apis |-> Len(structure.apis)]

generateAPIDocs(structure) ==
    IF structure.apis = <<>> THEN [text |-> "No API endpoints found in the code."]
    ELSE [title |-> "# API Documentation",
          sections |-> [k \in DOMAIN structure.apis |->
              [heading |-> <<structure.apis[k].method, structure.apis[k].endpoint>>,
               description |-> structure.apis[k].description,
               parameters |-> structure.apis[k].parameters]]]

\* the examples, without the code fences around them
ExampleFunction == "// Example function usage\nconst result = myFunction(param1, param2);"
ExampleApi == "# Example API call\ncurl -X GET http://localhost:3000/api/endpoint"
ExampleReact == "// React component example\n<MyComponent prop1=\"value\" prop2={data} />"

generateUsageExamples(structure, fw) ==
    Push(structure.functions # <<>>, <<ExampleFunction>>)
        \o Push(structure.apis # <<>>, <<ExampleApi>>)
        \o Push(fw = Present("react"), <<ExampleReact>>)

\* generateDocumentation of code-analyzer.ts; projectName is a string here
ToolGenerateDocumentation(c, projectName, fw, structure) ==
    [readme |-> generateREADME(IF NotString(projectName) THEN "CodeGuardian Project"
                                ELSE projectName[1], fw, structure),
     apiDocs |-> generateAPIDocs(structure),
     codeComments |-> generateEnhancedCodeComments(c, structure.functions),
     examples |-> generateUsageExamples(structure, fw)]

calculateDocumentationCoverage(structure) ==
    LET totalFunctions == Len(structure.functions)
        totalClasses == structure.classes
        totalAPIs == Len(structure.apis)
        documentedFunctions == (7 * totalFunctions) \div 10
        documentedClasses == (6 * totalClasses) \div 10
        documentedAPIs == (8 * totalAPIs) \div 10
        totalItems == totalFunctions + totalClasses + totalAPIs
        documentedItems == documentedFunctions + documentedClasses + documentedAPIs
    IN  [functions |-> documentedFunctions,
         classes |-> documentedClasses,
         apis |-> documentedAPIs,
         coverage |-> IF totalItems > 0 THEN Round(100 * documentedItems, totalItems) ELSE 100]

generateDocumentationSuggestions(structure, lang, fw) ==
    Push(Len(structure.functions) > 10,
         <<"Consider breaking down large functions into smaller, documented units">>)
        \o Push(structure.classes > 0,
                <<"Add JSDoc comments to class methods and properties">>)
        \o Push(structure.apis # <<>>,
                <<"Document API endpoints with OpenAPI/Swagger specifications">>)
        \o Push(lang = "typescript",
                <<"Use TypeScript interfaces for better type documentation">>)
        \o Push(fw = Present("react"),
                <<"Document React components with PropTypes or TypeScript interfaces">>)
        \o <<"Add inline comments for complex business logic",
             "Keep documentation updated with code changes">>

\* an exception that leaves execute: the promise it returned is rejected
Thrown(name) == [thrown |-> name]

\* the steps of the try block that throw a TypeError: destructuring a
\* context that is undefined, code.split of a code that is undefined, and
\* projectTitle.toLowerCase of a project name that is not a string
TryThrows(context) ==
    \/ context.kind # "object"
    \/ context.code = Absent
    \/ context.projectName = NotAString

\* the object literal of the catch branch, for a binding c of the name code
DocumentationFailed(message, c) ==
    [documentation |-> [readme |-> [title |-> "Documentation Generation Failed",
                                    error |-> message],
                        apiDocs |-> [text |-> "Unable to generate API documentation"],
                        codeComments |-> c,
                        examples |-> <<"Fix documentation generation errors">>],
     coverage |-> [functions |-> 0, classes |-> 0, apis |-> 0, coverage |-> 0],
     suggestions |-> <<"Fix documentation generation errors before proceeding">>]

\* documentationGeneratorTool.execute({ context }): code is a const of the
\* try block, so the name is not bound in the catch block, and evaluating
\* the object literal there throws a ReferenceError
documentationGeneratorTool(context) ==
    IF TryThrows(context) THEN Thrown("ReferenceError")
    ELSE LET structure == analyzeCodeStructure(context.code[1])
         IN  [documentation |-> ToolGenerateDocumentation(context.code[1], context.projectName,
                                                          context.framework, structure),
              coverage |-> calculateDocumentationCoverage(structure),
              suggestions |-> generateDocumentationSuggestions(structure, context.language,
                                                               context.framework)]

(***************************************************************************)
(* SpecDoc: one call of documentationGeneratorTool.execute on every        *)
(* bounded context                                                         *)
(***************************************************************************)
\* source lines that the structure analysis reacts to
DocTokens ==
    { <<"/", "/", " ", "a", "d", "d", "s", "\n">>,
      <<"f", "u", "n", "c", "t", "i", "o", "n", " ", "f", "(", "a", ",", " ", "b", ")", "\n">>,
      <<"c", "o", "n", "s", "t", " ", "f", " ", "=", " ", "(", "x", ":", " ", "T", ")", " ", "=", ">", "\n">>,
      <<"c", "l", "a", "s", "s", " ", "A", " ", "{", "\n">>,
      <<"a", "p", "p", ".", "g", "e", "t", "(", "'", "/", "x", "'", ",", " ", "r", "e", "q", ".", "b", "o", "d", "y", ")", "\n">> }

DocLanguages == {"javascript", "typescript"}

DocContext(c, lang, projectName, fw) ==
    [kind |-> "object", code |-> c, language |-> lang, projectName |-> projectName, framework |-> fw]

\* the contexts that the input schema admits
ValidContexts ==
    {DocContext(Present(c), lang, n, fw) :
        c \in CodesOver(DocTokens), lang \in DocLanguages,
        n \in Optional({"Sentra"}), fw \in Optional({"react"})}

\* arguments outside the schema: no context, no code, a project name that is
\* a number
DefectiveContexts ==
    {[kind |-> "undefined"]} \cup
    {DocContext(Absent, "javascript", Absent, Absent)} \cup
    {DocContext(Present(c), "javascript", NotAString, Absent) : c \in CodesOver(DocTokens)}

ToolCall(id, context) == [endpoint |-> id, context |-> context]

InitDoc ==
    /\ files = EmptyMap
    /\ sessions = EmptyMap
    /\ first = NoResult
    /\ request \in {ToolCall("generate_documentation", x) : x \in ValidContexts \cup DefectiveContexts}
    /\ pc = "idle"
    /\ timer = "unset"
    /\ remote = NoRemote
    /\ response = NoResponse
    /\ code = <<>>
    /\ language = ""
    /\ framework = ""
    /\ op = "none"
    /\ result = NoResult
    /\ findings = <<>>

\* documentationGeneratorTool.execute({ context })
DocumentationGeneratorTool ==
    /\ op = "none"
    /\ op' = "documentationGeneratorTool"
    /\ result' = documentationGeneratorTool(request.context)
    /\ UNCHANGED <<serverVars, code, language, framework, findings>>

NextDoc == DocumentationGeneratorTool

SpecDoc == InitDoc /\ [][NextDoc]_vars

(***************************************************************************)
(* C16                                                                     *)
(***************************************************************************)
\* C16 (documentationGeneratorTool.execute): no exception leaves execute;
\* when a step of the generation throws, the value returned has the readme
\* '# Documentation Generation Failed', the submitted code as codeComments,
\* an all-zero coverage and the suggestion to fix the errors.
\* Refuted: the catch block reads the name code, which it does not bind.
C16_NeverPropagates ==
    op = "documentationGeneratorTool" =>
        /\ "thrown" \notin DOMAIN result
        /\ TryThrows(request.context) =>
              /\ result.documentation.readme.title = "Documentation Generation Failed"
              /\ result.coverage = [functions |-> 0, classes |-> 0, apis |-> 0, coverage |-> 0]
              /\ result.suggestions = <<"Fix documentation generation errors before proceeding">>
              /\ \A c \in CodesOver(DocTokens) :
                    (request.context.kind = "object" /\ request.context.code = Present(c))
                        => result.documentation.codeComments = c

\* what the code does: every throw of the try block ends in a ReferenceError
\* that leaves execute, and a context that the schema admits never throws
C16_CatchThrows ==
    op = "documentationGeneratorTool" =>
        /\ TryThrows(request.context) <=> result = Thrown("ReferenceError")
        /\ request.context \in ValidContexts => "documentation" \in DOMAIN result

\* a commented function: the structure finds f with its parameters and its
\* description, and the comment block is put before its declaration
C16_WitnessCommented ==
    /\ op = "documentationGeneratorTool"
    /\ request.context.kind = "object"
    /\ request.context.code = Present(<<"/", "/", " ", "a", "d", "d", "s", "\n", "f", "u", "n", "c", "t", "i", "o", "n", " ", "f", "(", "a", ",", " ", "b", ")", "\n">>)
    /\ result.documentation.codeComments =
            <<"/", "/", " ", "a", "d", "d", "s", "\n", "/", "*", "*", "\n", " ", "*", " ", "a", "d", "d", "s", "\n", " ", "*", " ", "@", "p", "a", "r", "a", "m", " ", "{", "*", "}", " ", "a", ",", " ", "b", "\n", " ", "*", "/", "\n", "f", "u", "n", "c", "t", "i", "o", "n", " ", "f", "(", "a", ",", " ", "b", ")", "\n">>
    /\ result.coverage = [functions |-> 0, classes |-> 0, apis |-> 0, coverage |-> 0]

(***************************************************************************)
(* repositoryConnectorTool (repository-connector.ts)                       *)
(*                                                                         *)
(* File patterns are written with literal characters, '.', '*' and '(';    *)
(* RegExpThrows and RegExpTest give the constructor and the test method of *)
(* RegExp for the expressions over these.  The time of the call is one     *)
(* value, and a day of the recent activity is named by its distance from   *)
(* the day of the call.                                                    *)
(***************************************************************************)
RepoFile(path, size, lang, complexity) ==
    [path |-> path, size |-> size, language |-> lang, complexity |-> complexity]

mockFiles ==
    << RepoFile(<<"s", "r", "c", "/", "i", "n", "d", "e", "x", ".", "j", "s">>, 1024, "javascript", 3),
       RepoFile(<<"s", "r", "c", "/", "c", "o", "m", "p", "o", "n", "e", "n", "t", "s", "/", "B", "u", "t", "t", "o", "n", ".", "t", "s", "x">>, 2048, "typescript", 5),
       RepoFile(<<"s", "r", "c", "/", "u", "t", "i", "l", "s", "/", "h", "e", "l", "p", "e", "r", "s", ".", "j", "s">>, 512, "javascript", 2),
       RepoFile(<<"p", "a", "c", "k", "a", "g", "e", ".", "j", "s", "o", "n">>, 256, "json", 1),
       RepoFile(<<"R", "E", "A", "D", "M", "E", ".", "m", "d">>, 1024, "markdown", 1),
       RepoFile(<<"s", "r", "c", "/", "a", "p", "i", "/", "r", "o", "u", "t", "e", "s", ".", "j", "s">>, 1536, "javascript", 4),
       RepoFile(<<"s", "r", "c", "/", "s", "t", "y", "l", "e", "s", "/", "m", "a", "i", "n", ".", "c", "s", "s">>, 768, "css", 2),
       RepoFile(<<"t", "e", "s", "t", "s", "/", "u", "n", "i", "t", ".", "t", "e", "s", "t", ".", "j", "s">>, 896, "javascript", 3) >>

\* url.match(/\/([^\/]+)\.git$|\/([^\/]+)$/): match[1] || match[2], or
\* 'Unknown Repository' without a match
extractRepositoryName(url) ==
    LET parts == Split(url, "/")
        last == parts[Len(parts)]
        n == Len(last)
    IN  IF Len(parts) = 1 \/ last = <<>> THEN <<"U", "n", "k", "n", "o", "w", "n", " ", "R", "e", "p", "o", "s", "i", "t", "o", "r", "y">>
        ELSE IF n > 4 /\ SubSeq(last, n - 3, n) = <<".", "g", "i", "t">> THEN SubSeq(last, 1, n - 4)
        ELSE last

Now == "now"

analyzeRepository(url, branch, contributors) ==
    [name |-> extractRepositoryName(url), url |-> url, branch |-> branch,
     lastCommit |-> Now, contributors |-> contributors]

\* filePattern.replace('*', '.*'): the first '*' only
ReplaceFirstStar(filePattern) ==
    LET k == IndexOfClass(filePattern, 1, {"*"})
    IN  IF k > Len(filePattern) THEN filePattern
        ELSE SubSeq(filePattern, 1, k - 1) \o <<".", "*">> \o SubSeq(filePattern, k + 1, Len(filePattern))

\* new RegExp(pattern) throws a SyntaxError: a group that is not closed, or
\* a '*' with nothing to repeat
RegExpThrows(pattern) ==
    \/ \E i \in 1..Len(pattern) : pattern[i] = "("
    \/ \E i \in 1..Len(pattern) :
          pattern[i] = "*" /\ (i = 1 \/ pattern[i - 1] = "*")

\* the atom a of an expression matches the character ch
AtomMatches(a, ch) == IF a = "." THEN ch # NL ELSE a = ch

\* the expression from its position k on matches a prefix of s[i..]
RECURSIVE MatchHere(_, _, _, _)
MatchHere(pattern, k, s, i) ==
    IF k > Len(pattern) THEN TRUE
    ELSE IF k < Len(pattern) /\ pattern[k + 1] = "*"
    THEN \E j \in i..(Len(s) + 1) :
            /\ \A h \in i..(j - 1) : AtomMatches(pattern[k], s[h])
            /\ MatchHere(pattern, k + 2, s, j)
    ELSE /\ i <= Len(s)
         /\ AtomMatches(pattern[k], s[i])
         /\ MatchHere(pattern, k + 1, s, i + 1)

\* regex.test(s) for an expression without flags
RegExpTest(pattern, s) == \E i \in 1..(Len(s) + 1) : MatchHere(pattern, 1, s, i)

\* analyzeRepositoryFiles(url, filePattern) when the constructor does not
\* throw
analyzeRepositoryFiles(filePattern) ==
    IF NotText(filePattern) THEN mockFiles
    ELSE SelectSeq(mockFiles, LAMBDA file : RegExpTest(ReplaceFirstStar(filePattern[1]), file.path))

AnalyzeFilesThrows(filePattern) ==
    ~NotText(filePattern) /\ RegExpThrows(ReplaceFirstStar(filePattern[1]))

\* the seven days of recentActivity, oldest first, with their random draws
Days == 7
RecentActivity(commits, contributors) ==
    [d \in 1..Days |-> [date |-> Days - d, commits |-> commits[d], contributors |-> contributors[d]]]

\* calculateRepositoryStatistics(files), with the random draws of the week
calculateRepositoryStatistics(fs, recentActivity) ==
    [totalFiles |-> Len(fs),
     totalLines |-> TotalLines(fs),
     languages |-> [l \in {fs[i].language : i \in DOMAIN fs} |->
                       Cardinality({i \in DOMAIN fs : fs[i].language = l})],
     recentActivity |-> recentActivity]

AnyPathIncludes(file, texts) == \E t \in texts : Includes(file.path, t)

RECURSIVE TotalCommits(_)
TotalCommits(activity) ==
    IF activity = <<>> THEN 0 ELSE Head(activity).commits + TotalCommits(Tail(activity))

\* one check of performRepositoryAnalysis: its issue, its recommendation and
\* its deduction when it fails
Check(failed, issue, recommendation, deduction) ==
    IF failed THEN [issues |-> <<issue>>, recommendations |-> <<recommendation>>, minus |-> deduction]
    ELSE [issues |-> <<>>, recommendations |-> <<>>, minus |-> 0]

Counted(count, text) == [count |-> count, text |-> text]
Plain(text) == [text |-> text]

\* the seven checks of performRepositoryAnalysis, in their order
HealthChecks(fs, statistics) ==
    LET testFiles == SelectSeq(fs, LAMBDA file :
            AnyPathIncludes(file, {<<"t", "e", "s", "t">>, <<"s", "p", "e", "c">>, <<"_", "_", "t", "e", "s", "t", "s", "_", "_">>}))
        docFiles == SelectSeq(fs, LAMBDA file :
            AnyPathIncludes(file, {<<"R", "E", "A", "D", "M", "E">>, <<"d", "o", "c", "s">>, <<"D", "O", "C", "S">>}))
        configFiles == SelectSeq(fs, LAMBDA file :
            AnyPathIncludes(file, {<<"p", "a", "c", "k", "a", "g", "e", ".", "j", "s", "o", "n">>, <<"t", "s", "c", "o", "n", "f", "i", "g", ".", "j", "s", "o", "n">>, <<".", "e", "s", "l", "i", "n", "t", "r", "c">>, <<".", "g", "i", "t", "i", "g", "n", "o", "r", "e">>}))
        largeFiles == SelectSeq(fs, LAMBDA file : file.size > 10000)
        complexFiles == SelectSeq(fs, LAMBDA file : file.complexity > 8)
    IN  << Check(Len(testFiles) = 0, Plain("No test files found"),
                 "Add unit tests for better code coverage", 20),
           Check(Len(docFiles) = 0, Plain("No documentation found"),
                 "Add README.md and documentation", 15),
           Check(Len(configFiles) < 2, Plain("Missing configuration files"),
                 "Add proper configuration files (package.json, tsconfig.json, etc.)", 10),
           Check(Len(largeFiles) > 0, Counted(Len(largeFiles), " large files found (>10KB)"),
                 "Consider breaking down large files", 5),
           Check(Len(complexFiles) > 0, Counted(Len(complexFiles), " high complexity files found"),
                 "Refactor complex files for better maintainability", 10),
           Check(TotalCommits(statistics.recentActivity) < 5, Plain("Low recent activity"),
                 "Increase development activity and regular commits", 5),
           Check(Cardinality(DOMAIN statistics.languages) > 5,
                 Plain("Too many programming languages in one repository"),
                 "Consider standardizing on fewer languages", 5) >>

RECURSIVE SumMinus(_)
SumMinus(checks) == IF checks = <<>> THEN 0 ELSE Head(checks).minus + SumMinus(Tail(checks))

GoodHealth_AtLeast80(healthScore) == healthScore >= 80

\* healthScore > 80
GoodHealth(healthScore) == healthScore > 80

performRepositoryAnalysis(fs, statistics) ==
    LET checks == HealthChecks(fs, statistics)
        healthScore == 100 - SumMinus(checks)
    IN  [overallHealth |-> Max(0, healthScore),
         issues |-> Concat([k \in DOMAIN checks |-> checks[k].issues]),
         recommendations |->
             Concat([k \in DOMAIN checks |-> checks[k].recommendations])
                 \o Push(GoodHealth(healthScore), <<"Repository is in good health!">>)
                 \o <<"Set up CI/CD pipeline for automated testing",
                      "Implement code review process",
                      "Add security scanning to the pipeline">>]

RepositoryFailed_MainBranch(context, message) ==
    [repository |-> [name |-> <<"U", "n", "k", "n", "o", "w", "n">>, url |-> context.repositoryUrl,
                     branch |-> "main", lastCommit |-> "Unknown", contributors |-> 0],
     files |-> <<>>,
     statistics |-> [totalFiles |-> 0, totalLines |-> 0, languages |-> <<>>,
                     recentActivity |-> <<>>],
     analysis |-> [overallHealth |-> 0,
                   issues |-> <<[text |-> "Repository analysis failed: ", error |-> message]>>,
                   recommendations |-> <<"Fix repository connection and try again">>]]

\* the value of the catch branch of repositoryConnectorTool.execute
RepositoryFailed(context, message) ==
    [repository |-> [name |-> <<"U", "n", "k", "n", "o", "w", "n">>, url |-> context.repositoryUrl,
                     branch |-> IF NotString(context.branch) THEN "main" ELSE context.branch[1],
                     lastCommit |-> "Unknown", contributors |-> 0],
     files |-> <<>>,
     statistics |-> [totalFiles |-> 0, totalLines |-> 0, languages |-> <<>>,
                     recentActivity |-> <<>>],
     analysis |-> [overallHealth |-> 0,
                   issues |-> <<[text |-> "Repository analysis failed: ", error |-> message]>>,
                   recommendations |-> <<"Fix repository connection and try again">>]]

\* repositoryConnectorTool.execute({ context }) for a context that the input
\* schema admits; new RegExp is the one step that throws
repositoryConnectorTool(context, contributors, recentActivity) ==
    IF AnalyzeFilesThrows(context.filePattern)
    THEN RepositoryFailed(context, "Invalid regular expression")
    ELSE LET fs == analyzeRepositoryFiles(context.filePattern)
             statistics == calculateRepositoryStatistics(fs, recentActivity)
         IN  [repository |-> analyzeRepository(context.repositoryUrl,
                                               OrElse(context.branch, "main"), contributors),
              files |-> fs,
              statistics |-> statistics,
              analysis |-> performRepositoryAnalysis(fs, statistics)]

(***************************************************************************)
(* SpecRepo: one call of repositoryConnectorTool.execute on every bounded  *)
(* context                                                                 *)
(***************************************************************************)
MaxPattern == 2

PatternTokens == {<<"*">>, <<".">>, <<"j", "s">>, <<"(">>, <<"s", "r", "c", "/">>}

FilePatterns == {Concat(ts) : ts \in SeqsUpTo(PatternTokens, MaxPattern)}

ToolRepoUrls == {<<"h", "t", "t", "p", "s", ":", "/", "/", "h", "/", "o", "/", "r", "e", "p", "o", ".", "g", "i", "t">>, <<"o", "/">>}

RepoContexts ==
    {[repositoryUrl |-> u, branch |-> b, filePattern |-> p] :
        u \in ToolRepoUrls, b \in Optional({"", "dev"}), p \in Optional(FilePatterns)}

\* outcomes of Math.floor(Math.random() * 20) + 1
ContributorSamples == {1, 20}

\* outcomes of the random draws of a week: the commits of the seven days
\* (each in 0..9) and their contributors (each in 1..5)
CommitSamples ==
    { <<0, 0, 0, 0, 0, 0, 0>>, <<4, 0, 0, 0, 0, 0, 0>>, <<0, 0, 0, 2, 0, 0, 3>>,
      <<9, 9, 9, 9, 9, 9, 9>> }
DayContributorSamples == { <<1, 1, 1, 1, 1, 1, 1>>, <<5, 4, 3, 2, 1, 2, 3>> }

ActivitySamples ==
    {RecentActivity(c, n) : c \in CommitSamples, n \in DayContributorSamples}

InitRepo ==
    /\ files = EmptyMap
    /\ sessions = EmptyMap
    /\ first = NoResult
    /\ request \in {ToolCall("connect_repository", x) : x \in RepoContexts}
    /\ pc = "idle"
    /\ timer = "unset"
    /\ remote = NoRemote
    /\ response = NoResponse
    /\ code = <<>>
    /\ language = ""
    /\ framework = ""
    /\ op = "none"
    /\ result = NoResult
    /\ findings = <<>>

\* repositoryConnectorTool.execute({ context })
RepositoryConnectorTool ==
    /\ op = "none"
    /\ op' = "repositoryConnectorTool"
    /\ \E contributors \in ContributorSamples, activity \in ActivitySamples :
          result' = repositoryConnectorTool(request.context, contributors, activity)
    /\ UNCHANGED <<serverVars, code, language, framework, findings>>

NextRepo == RepositoryConnectorTool

SpecRepo == InitRepo /\ [][NextRepo]_vars

(***************************************************************************)
(* C17                                                                     *)
(***************************************************************************)
IsMockFile(file) == \E k \in DOMAIN mockFiles : mockFiles[k] = file

C17_WitnessFiltered ==
    /\ op = "repositoryConnectorTool"
    /\ request.context.filePattern = Present(<<"*", "j", "s">>)
    /\ Len(result.files) = 5
    /\ result.files[3].path = <<"p", "a", "c", "k", "a", "g", "e", ".", "j", "s", "o", "n">>

(***************************************************************************)
(* SpecHealth: performRepositoryAnalysis on bounded files and statistics   *)
(***************************************************************************)
MaxFiles == 4

FilePool ==
    { RepoFile(<<"t", "e", "s", "t", "s", "/", "u", "n", "i", "t", ".", "t", "e", "s", "t", ".", "j", "s">>, 896, "javascript", 3),
      RepoFile(<<"R", "E", "A", "D", "M", "E", ".", "m", "d">>, 1024, "markdown", 1),
      RepoFile(<<"p", "a", "c", "k", "a", "g", "e", ".", "j", "s", "o", "n">>, 256, "json", 1),
      RepoFile(<<"t", "s", "c", "o", "n", "f", "i", "g", ".", "j", "s", "o", "n">>, 128, "json", 1),
      RepoFile(<<"d", "i", "s", "t", "/", "b", "u", "n", "d", "l", "e", ".", "j", "s">>, 20000, "javascript", 9),
      RepoFile(<<"s", "r", "c", "/", "i", "n", "d", "e", "x", ".", "j", "s">>, 10000, "javascript", 8) }

LanguageSamples ==
    { {}, {"javascript", "typescript", "json", "markdown", "css"},
      {"javascript", "typescript", "json", "markdown", "css", "python"} }

StatisticsSamples ==
    {[totalFiles |-> 0, totalLines |-> 0, languages |-> [l \in ls |-> 1],
      recentActivity |-> RecentActivity(c, <<1, 1, 1, 1, 1, 1, 1>>)] :
        ls \in LanguageSamples, c \in CommitSamples}

AnalysisCall(fs, statistics) ==
    [endpoint |-> "performRepositoryAnalysis", files |-> fs, statistics |-> statistics]

InitHealth ==
    /\ files = EmptyMap
    /\ sessions = EmptyMap
    /\ first = NoResult
    /\ request \in {AnalysisCall(fs, st) : fs \in SeqsUpTo(FilePool, MaxFiles), st \in StatisticsSamples}
    /\ pc = "idle"
    /\ timer = "unset"
    /\ remote = NoRemote
    /\ response = NoResponse
    /\ code = <<>>
    /\ language = ""
    /\ framework = ""
    /\ op = "none"
    /\ result = NoResult
    /\ findings = <<>>

\* performRepositoryAnalysis(files, statistics)
PerformRepositoryAnalysis ==
    /\ op = "none"
    /\ op' = "performRepositoryAnalysis"
    /\ result' = performRepositoryAnalysis(request.files, request.statistics)
    /\ UNCHANGED <<serverVars, code, language, framework, findings>>

NextHealth == PerformRepositoryAnalysis

SpecHealth == InitHealth /\ [][NextHealth]_vars

(***************************************************************************)
(* C18                                                                     *)
(***************************************************************************)
PathHolds(fs, texts) == {k \in DOMAIN fs : \E t \in texts : Includes(fs[k].path, t)}

\* the checks that fail for the files and the statistics of the call
FailedChecks ==
    LET fs == request.files IN
    << PathHolds(fs, {<<"t", "e", "s", "t">>, <<"s", "p", "e", "c">>, <<"_", "_", "t", "e", "s", "t", "s", "_", "_">>}) = {},
       PathHolds(fs, {<<"R", "E", "A", "D", "M", "E">>, <<"d", "o", "c", "s">>, <<"D", "O", "C", "S">>}) = {},
       Cardinality(PathHolds(fs, {<<"p", "a", "c", "k", "a", "g", "e", ".", "j", "s", "o", "n">>, <<"t", "s", "c", "o", "n", "f", "i", "g", ".", "j", "s", "o", "n">>, <<".", "e", "s", "l", "i", "n", "t", "r", "c">>,
                                  <<".", "g", "i", "t", "i", "g", "n", "o", "r", "e">>})) < 2,
       \E k \in DOMAIN fs : fs[k].size > 10000,
       \E k \in DOMAIN fs : fs[k].complexity > 8,
       TotalCommits(request.statistics.recentActivity) < 5,
       Cardinality(DOMAIN request.statistics.languages) > 5 >>

Deductions == <<20, 15, 10, 5, 10, 5, 5>>

RECURSIVE Sum(_)
Sum(ns) == IF ns = <<>> THEN 0 ELSE Head(ns) + Sum(Tail(ns))

\* C18 (performRepositoryAnalysis): overallHealth is 100 minus the deductions
\* of the failed checks (no tests 20, no docs 15, fewer than two configuration
\* files 10, large files 5, complex files 10, fewer than 5 recent commits 5,
\* more than 5 languages 5) and lies in 30..100; every failed check adds one
\* issue and one recommendation; 'Repository is in good health!' is
\* recommended iff overallHealth > 80.
C18_HealthScore ==
    op = "performRepositoryAnalysis" =>
        LET checks == FailedChecks
            failed == Cardinality({k \in 1..7 : checks[k]})
            good == \E k \in DOMAIN result.recommendations :
                        result.recommendations[k] = "Repository is in good health!"
        IN  /\ result.overallHealth =
                   100 - Sum([k \in 1..7 |-> IF checks[k] THEN Deductions[k] ELSE 0])
            /\ result.overallHealth \in 30..100
            /\ Len(result.issues) = failed
            /\ Len(result.recommendations) = failed + 3 + (IF good THEN 1 ELSE 0)
            /\ good <=> result.overallHealth > 80

\* all seven checks fail
C18_Witness ==
    /\ op = "performRepositoryAnalysis"
    /\ result.overallHealth = 30
    /\ Len(result.issues) = 7
    /\ Len(result.recommendations) = 10

\* exactly the test check fails: 80 is not good health
C18_WitnessEighty ==
    /\ op = "performRepositoryAnalysis"
    /\ result.overallHealth = 80
    /\ result.issues = <<Plain("No test files found")>>
    /\ Len(result.recommendations) = 4

\* no check fails
C18_WitnessHealthy ==
    /\ op = "performRepositoryAnalysis"
    /\ result.overallHealth = 100
    /\ result.issues = <<>>
    /\ result.recommendations[1] = "Repository is in good health!"

====
